---- MODULE Spec2Model ----
(***************************************************************************)
(* PCM editing engine of the podcast studio: the base64/PCM helpers of     *)
(* src/src/utils/audioUtils.ts, the two waveform editors of src/App.tsx    *)
(* (StepStudio inside the creator workflow and the stand-alone             *)
(* AudioEditor) and the creator workflow state that owns the studio's      *)
(* audio (generation, episodes, start over).                               *)
(*                                                                         *)
(* Time values are integers: one second is UnitsPerSecond units, so one    *)
(* byte of 24000 Hz 16-bit mono PCM lasts UnitsPerByte units.  Products    *)
(* and quotients of times are exact integer arithmetic on these units.     *)
(***************************************************************************)
EXTENDS Integers, Sequences, FiniteSets, TLC

\* ---------------------------------------------------------------- bounds
UnitsPerByte == 4
ContainerWidth == 3
MaxBytes == 4
MaxHistory == 2
MaxZoom == 1
MaxEpisodes == 1
MaxPending == 1

\* ------------------------------------------------------ program constants
sampleRate == 24000
bytesPerSample == 2
UnitsPerSecond == sampleRate * bytesPerSample * UnitsPerByte

\* --------------------------------------------------------------- sentinels
\* null of a base64 string (a string is a sequence of alphabet indices 0..64)
Null == <<-1>>
\* null of the selection state
NoSelection == [start |-> -1, end |-> -1]
\* the RangeError thrown by new Uint8Array(negative length)
RangeError == <<-2>>
\* null of an array-valued state (script, scriptTimings)
NullList == <<[null |-> TRUE]>>

Max(a, b) == IF a >= b THEN a ELSE b
Min(a, b) == IF a <= b THEN a ELSE b

\* ------------------------------------------------------------ audioUtils
Pow(b, e) == IF e = 0 THEN 1 ELSE IF e = 1 THEN b ELSE IF e = 2 THEN b * b ELSE b * b * b

\* btoa over the byte string: 3 bytes -> 4 alphabet indices, 64 is '='
encode(bytes) ==
    LET len == Len(bytes)
        groups == (len + 2) \div 3
        byteAt(i) == IF i <= len THEN bytes[i] ELSE 0
    IN  [c \in 1..(4 * groups) |->
            LET g == (c - 1) \div 4
                j == (c - 1) % 4
                triple == byteAt(3 * g + 1) * 65536 + byteAt(3 * g + 2) * 256 + byteAt(3 * g + 3)
            IN  IF j >= 2 /\ 3 * g + j > len THEN 64
                ELSE (triple \div Pow(64, 3 - j)) % 64]

\* atob that takes the padding characters for data
decode_PaddingAsData(base64) ==
    LET n == Len(base64)
        sextet(c) == IF base64[c] = 64 THEN 0 ELSE base64[c]
    IN [i \in 1..(3 * (n \div 4)) |->
          LET g == (i - 1) \div 3
              j == (i - 1) % 3
              quad == sextet(4*g + 1) * 262144 + sextet(4*g + 2) * 4096
                      + sextet(4*g + 3) * 64 + sextet(4*g + 4)
          IN (quad \div Pow(256, 2 - j)) % 256]

\* atob: 4 alphabet indices -> 3 bytes, less one byte per '='
decode(base64) ==
    LET n == Len(base64)
        groups == n \div 4
        pad == Cardinality({c \in 1..n : base64[c] = 64})
        len == 3 * groups - pad
        sextet(c) == IF base64[c] = 64 THEN 0 ELSE base64[c]
    IN  [i \in 1..len |->
            LET g == (i - 1) \div 3
                j == (i - 1) % 3
                quad == sextet(4 * g + 1) * 262144 + sextet(4 * g + 2) * 4096
                        + sextet(4 * g + 3) * 64 + sextet(4 * g + 4)
            IN  (quad \div Pow(256, 2 - j)) % 256]

\* offset at which chunk k is written by result.set(chunk, offset)
RECURSIVE chunkOffset(_, _)
chunkOffset(chunks, k) ==
    IF k = 1 THEN 0 ELSE chunkOffset(chunks, k - 1) + Len(chunks[k - 1])

\* the chunks written last to first
concatenatePcm_LastFirst(chunks) ==
    LET n == Len(chunks)
        rev == [k \in 1..n |-> chunks[n + 1 - k]]
        totalLength == chunkOffset(rev, n + 1)
    IN  [i \in 1..totalLength |->
            LET k == CHOOSE c \in 1..n :
                        chunkOffset(rev, c) < i /\ i <= chunkOffset(rev, c) + Len(rev[c])
            IN  rev[k][i - chunkOffset(rev, k)]]

concatenatePcm(chunks) ==
    LET totalLength == chunkOffset(chunks, Len(chunks) + 1)
    IN  [i \in 1..totalLength |->
            LET k == CHOOSE c \in 1..Len(chunks) :
                        chunkOffset(chunks, c) < i /\ i <= chunkOffset(chunks, c) + Len(chunks[c])
            IN  chunks[k][i - chunkOffset(chunks, k)]]

\* Uint8Array.prototype.slice(begin, end) for begin, end >= 0
slice(bytes, begin, end) ==
    LET b == Min(begin, Len(bytes))
        e == Min(end, Len(bytes))
    IN  IF e > b THEN SubSeq(bytes, b + 1, e) ELSE <<>>

\* new Int16Array(buffer, byteOffset, length / 2): little-endian signed view
toInt16(bytes) ==
    [i \in 1..(Len(bytes) \div 2) |->
        LET u == bytes[2 * i - 1] + 256 * bytes[2 * i]
        IN  IF u >= 32768 THEN u - 65536 ELSE u]

\* new Uint8Array(int16Array.buffer): stores wrap modulo 2^16
int16Bytes(samples) ==
    [i \in 1..(2 * Len(samples)) |->
        LET u == samples[(i + 1) \div 2] % 65536
        IN  IF i % 2 = 1 THEN u % 256 ELSE u \div 256]

\* DataView.setUint16 / setUint32 with littleEndian = true (values below 2^31)
uintLE(value, width) ==
    [k \in 1..width |-> (value \div Pow(256, k - 1)) % 256]

\* a header whose data-size field repeats the RIFF size
pcmToWav_DataSizeIsRiffSize(pcmData, rate, numChannels, bitsPerSample) ==
    LET dataSize == Len(pcmData)
        byteRate == rate * numChannels * (bitsPerSample \div 8)
        blockAlign == numChannels * (bitsPerSample \div 8)
    IN  <<82, 73, 70, 70>> \o uintLE(36 + dataSize, 4) \o <<87, 65, 86, 69>>
        \o <<102, 109, 116, 32>> \o uintLE(16, 4) \o uintLE(1, 2)
        \o uintLE(numChannels, 2) \o uintLE(rate, 4) \o uintLE(byteRate, 4)
        \o uintLE(blockAlign, 2) \o uintLE(bitsPerSample, 2)
        \o <<100, 97, 116, 97>> \o uintLE(36 + dataSize, 4)
        \o pcmData

\* the bytes of the Blob: 'RIFF' size 'WAVE' 'fmt ' 16 1 channels rate byteRate
\* blockAlign bits 'data' dataSize, then the PCM data from offset 44
pcmToWav(pcmData, rate, numChannels, bitsPerSample) ==
    LET dataSize == Len(pcmData)
        byteRate == rate * numChannels * (bitsPerSample \div 8)
        blockAlign == numChannels * (bitsPerSample \div 8)
    IN  <<82, 73, 70, 70>> \o uintLE(36 + dataSize, 4) \o <<87, 65, 86, 69>>
        \o <<102, 109, 116, 32>> \o uintLE(16, 4) \o uintLE(1, 2)
        \o uintLE(numChannels, 2) \o uintLE(rate, 4) \o uintLE(byteRate, 4)
        \o uintLE(blockAlign, 2) \o uintLE(bitsPerSample, 2)
        \o <<100, 97, 116, 97>> \o uintLE(dataSize, 4)
        \o pcmData

\* a ramp over numSamples instead of numSamples - 1
applyFade_RampOverLength(pcmData, type) ==
    LET pcmInt16 == toInt16(pcmData)
        numSamples == Len(pcmInt16)
        den == IF numSamples > 1 THEN numSamples ELSE 1
        num(i) == IF type = "in" THEN i ELSE den - i
    IN  int16Bytes([k \in 1..numSamples |->
            (2 * pcmInt16[k] * num(k - 1) + den) \div (2 * den)])

\* gain is num/den with den = numSamples - 1 (or 1); Math.round(x) = floor(x + 1/2)
applyFade(pcmData, type) ==
    LET pcmInt16 == toInt16(pcmData)
        numSamples == Len(pcmInt16)
        den == IF numSamples > 1 THEN numSamples - 1 ELSE 1
        num(i) == IF type = "in" THEN i ELSE den - i
    IN  int16Bytes([k \in 1..numSamples |->
            (2 * pcmInt16[k] * num(k - 1) + den) \div (2 * den)])

\* a number stored into an Int16Array element loses its fraction (towards zero)
\* before it is taken modulo 2^16; the number is a / b with b > 0
truncDiv(a, b) ==
    IF a >= 0 THEN a \div b ELSE -((-a) \div b)

\* the product stored without the Math.max / Math.min
applyGain_Unclipped(pcmData, gainFactor) ==
    LET pcmInt16 == toInt16(pcmData)
    IN  int16Bytes([k \in 1..Len(pcmInt16) |->
                       truncDiv(pcmInt16[k] * gainFactor.num, gainFactor.den)])

\* gainFactor is the fraction num / den, den > 0
applyGain(pcmData, gainFactor) ==
    LET pcmInt16 == toInt16(pcmData)
        MAX_VAL == 32767
        MIN_VAL == -32768
        boostedSample(k) == pcmInt16[k] * gainFactor.num
        clipped(k) ==
            IF boostedSample(k) > MAX_VAL * gainFactor.den THEN MAX_VAL
            ELSE IF boostedSample(k) < MIN_VAL * gainFactor.den THEN MIN_VAL
            ELSE truncDiv(boostedSample(k), gainFactor.den)
    IN  int16Bytes([k \in 1..Len(pcmInt16) |-> clipped(k)])

\* the background read past its end instead of looped: undefined, so the sum is
\* NaN and the element stored is 0
mixAudio_NoLoop(voicePcm, backgroundPcm, backgroundVolume) ==
    LET voiceInt16 == toInt16(voicePcm)
        backgroundInt16 == toInt16(backgroundPcm)
        backgroundLength == Len(backgroundInt16)
        MAX_VAL == 32767
        MIN_VAL == -32768
        mixedSample(k) == voiceInt16[k] * backgroundVolume.den
                          + backgroundInt16[k] * backgroundVolume.num
        clipped(k) ==
            IF k > backgroundLength THEN 0
            ELSE IF mixedSample(k) > MAX_VAL * backgroundVolume.den THEN MAX_VAL
            ELSE IF mixedSample(k) < MIN_VAL * backgroundVolume.den THEN MIN_VAL
            ELSE truncDiv(mixedSample(k), backgroundVolume.den)
    IN  IF backgroundLength = 0 THEN voicePcm
        ELSE int16Bytes([k \in 1..Len(voiceInt16) |-> clipped(k)])

\* backgroundVolume is the fraction num / den, den > 0; mixedSample(k) is the
\* numerator of voiceSample + backgroundSample over den
mixAudio(voicePcm, backgroundPcm, backgroundVolume) ==
    LET voiceInt16 == toInt16(voicePcm)
        backgroundInt16 == toInt16(backgroundPcm)
        backgroundLength == Len(backgroundInt16)
        MAX_VAL == 32767
        MIN_VAL == -32768
        mixedSample(k) == voiceInt16[k] * backgroundVolume.den
                          + backgroundInt16[((k - 1) % backgroundLength) + 1]
                            * backgroundVolume.num
        clipped(k) ==
            IF mixedSample(k) > MAX_VAL * backgroundVolume.den THEN MAX_VAL
            ELSE IF mixedSample(k) < MIN_VAL * backgroundVolume.den THEN MIN_VAL
            ELSE truncDiv(mixedSample(k), backgroundVolume.den)
    IN  IF backgroundLength = 0 THEN voicePcm
        ELSE int16Bytes([k \in 1..Len(voiceInt16) |-> clipped(k)])

\* the new length rounded up instead of down
changeSpeed_LengthRoundedUp(pcmData, speedFactor) ==
    LET pcmInt16 == toInt16(pcmData)
        originalLength == Len(pcmInt16)
        newLength == (originalLength * speedFactor.den + speedFactor.num - 1)
                     \div speedFactor.num
        index1(i) == (i * speedFactor.num) \div speedFactor.den
        index2(i) == Min(index1(i) + 1, originalLength - 1)
        fraction(i) == (i * speedFactor.num) % speedFactor.den
        sampleAt(index) == IF index < originalLength THEN pcmInt16[index + 1] ELSE 0
    IN  int16Bytes([k \in 1..newLength |->
            truncDiv(sampleAt(index1(k - 1)) * speedFactor.den
                     + (sampleAt(index2(k - 1)) - sampleAt(index1(k - 1))) * fraction(k - 1),
                     speedFactor.den)])

\* speedFactor is the fraction num / den, num > 0, den > 0; fraction(i) is the
\* numerator of originalIndex - index1 over den; an index past the end reads
\* undefined, which || 0 turns into 0
changeSpeed(pcmData, speedFactor) ==
    LET pcmInt16 == toInt16(pcmData)
        originalLength == Len(pcmInt16)
        newLength == (originalLength * speedFactor.den) \div speedFactor.num
        index1(i) == (i * speedFactor.num) \div speedFactor.den
        index2(i) == Min(index1(i) + 1, originalLength - 1)
        fraction(i) == (i * speedFactor.num) % speedFactor.den
        sampleAt(index) == IF index < originalLength THEN pcmInt16[index + 1] ELSE 0
    IN  int16Bytes([k \in 1..newLength |->
            truncDiv(sampleAt(index1(k - 1)) * speedFactor.den
                     + (sampleAt(index2(k - 1)) - sampleAt(index1(k - 1))) * fraction(k - 1),
                     speedFactor.den)])

\* duration is in time units; a negative byte count makes Uint8Array throw
generateSilence(duration, rate, bitsPerSample) ==
    LET numSamples == (duration * rate) \div (UnitsPerSecond)
        totalBytes == numSamples * (bitsPerSample \div 8)
    IN  IF totalBytes < 0 THEN RangeError ELSE [i \in 1..totalBytes |-> 0]

\* (chunk.length / bytesPerSample) / sampleRate seconds, in time units
getPcmChunkDuration(chunk, rate, bitsPerSample) ==
    Len(chunk) * (UnitsPerSecond \div ((bitsPerSample \div 8) * rate))


\* ------------------------------------------------- waveform pointer mapping
\* rendered layouts of the waveform container: scrollWidth and scrollLeft
Layouts ==
    {[scrollWidth |-> ContainerWidth * z, scrollLeft |-> l] :
        z \in 1..MaxZoom, l \in 0..(ContainerWidth * (MaxZoom - 1))}

\* clientX - rect.left, including positions just outside the container
PointerXs == (-1)..(ContainerWidth + 1)

\* the time clamped at 0 only
pointerTime_NoUpperClamp(relativeX, layout, duration) ==
    LET absoluteX == relativeX + layout.scrollLeft
    IN  Max(0, (absoluteX * duration) \div layout.scrollWidth)

\* time = Math.max(0, Math.min((absoluteX / totalWidth) * duration, duration))
pointerTime(relativeX, layout, duration) ==
    LET absoluteX == relativeX + layout.scrollLeft
    IN  Max(0, Min((absoluteX * duration) \div layout.scrollWidth, duration))

\* audio.duration of the WAV blob built from the PCM payload
wavDuration(pcmData) == Len(pcmData) * UnitsPerByte

\* JavaScript truthiness of a string | null
Truthy(str) == str # Null /\ str # <<>>

\* ----------------------------------------------------- AudioEditor (tab)
EditorUnmounted ==
    [mounted |-> FALSE, audioData |-> Null, audioHistory |-> <<>>, duration |-> 0,
     selection |-> NoSelection, isDragging |-> FALSE, isTouch |-> FALSE,
     srcLoaded |-> FALSE]

EditorMounted(initialAudioData) ==
    [EditorUnmounted EXCEPT !.mounted = TRUE, !.audioData = initialAudioData]

EditTypes == {"cut", "trim", "silence", "fadeIn", "fadeOut"}

\* alignedByte without the step that makes the offset even
alignedByte_Unaligned(time) ==
    time \div (UnitsPerSecond \div (sampleRate * bytesPerSample))

\* byte offset of a selection bound: floor(t * sampleRate * bytesPerSample), made even;
\* t is time / UnitsPerSecond seconds, the division is taken first to stay in 32 bits
alignedByte(time) ==
    LET byte == time \div (UnitsPerSecond \div (sampleRate * bytesPerSample))
    IN  byte - (byte % 2)

\* editorNewData with a trim that keeps one sample past endByte
editorNewData_TrimPastEnd(pcmData, selection, type) ==
    LET startByte == alignedByte(selection.start)
        endByte == alignedByte(selection.end)
        part1 == slice(pcmData, 0, startByte)
        selectedPart == slice(pcmData, startByte, endByte)
        part2 == slice(pcmData, endByte, Len(pcmData))
        silence == generateSilence(selection.end - selection.start, sampleRate, 16)
    IN  CASE type = "cut" -> concatenatePcm(<<part1, part2>>)
          [] type = "trim" -> slice(pcmData, startByte, endByte + bytesPerSample)
          [] type = "silence" ->
                IF silence = RangeError THEN RangeError
                ELSE concatenatePcm(<<part1, silence, part2>>)
          [] type = "fadeIn" -> concatenatePcm(<<part1, applyFade(selectedPart, "in"), part2>>)
          [] type = "fadeOut" -> concatenatePcm(<<part1, applyFade(selectedPart, "out"), part2>>)

\* newData of AudioEditor.handleAudioEdit; RangeError when generateSilence throws
editorNewData(pcmData, selection, type) ==
    LET startByte == alignedByte(selection.start)
        endByte == alignedByte(selection.end)
        part1 == slice(pcmData, 0, startByte)
        selectedPart == slice(pcmData, startByte, endByte)
        part2 == slice(pcmData, endByte, Len(pcmData))
        silence == generateSilence(selection.end - selection.start, sampleRate, 16)
    IN  CASE type = "cut" -> concatenatePcm(<<part1, part2>>)
          [] type = "trim" -> selectedPart
          [] type = "silence" ->
                IF silence = RangeError THEN RangeError
                ELSE concatenatePcm(<<part1, silence, part2>>)
          [] type = "fadeIn" -> concatenatePcm(<<part1, applyFade(selectedPart, "in"), part2>>)
          [] type = "fadeOut" -> concatenatePcm(<<part1, applyFade(selectedPart, "out"), part2>>)

\* editorHandleAudioEdit taking the snapshot after the edit instead of before it
editorHandleAudioEdit_SnapshotAfter(ed, type) ==
    IF ed.selection = NoSelection \/ ~Truthy(ed.audioData) THEN ed
    ELSE LET newData == editorNewData(decode(ed.audioData), ed.selection, type)
         IN  IF newData = RangeError
             THEN [ed EXCEPT !.audioHistory = Append(@, ed.audioData)]
             ELSE [ed EXCEPT !.audioHistory = Append(@, encode(newData)),
                             !.audioData = encode(newData),
                             !.selection = NoSelection,
                             !.srcLoaded = IF encode(newData) # ed.audioData /\ newData # <<>>
                                           THEN FALSE ELSE @]

\* AudioEditor.handleAudioEdit: the component state after the handler ran
editorHandleAudioEdit(ed, type) ==
    IF ed.selection = NoSelection \/ ~Truthy(ed.audioData) THEN ed
    ELSE LET newData == editorNewData(decode(ed.audioData), ed.selection, type)
             pushed == [ed EXCEPT !.audioHistory = Append(@, ed.audioData)]
         IN  IF newData = RangeError THEN pushed
             ELSE [pushed EXCEPT !.audioData = encode(newData),
                                 !.selection = NoSelection,
                                 !.srcLoaded = IF encode(newData) # ed.audioData /\ newData # <<>>
                                               THEN FALSE ELSE @]

\* editorHandleUndo restoring the oldest snapshot while dropping the newest
editorHandleUndo_Oldest(ed) ==
    IF Len(ed.audioHistory) > 0
    THEN LET lastState == ed.audioHistory[1]
         IN  [ed EXCEPT !.audioData = lastState,
                        !.audioHistory = SubSeq(@, 1, Len(@) - 1),
                        !.srcLoaded = IF lastState # ed.audioData /\ Truthy(lastState)
                                      THEN FALSE ELSE @]
    ELSE ed

\* AudioEditor.handleUndo
editorHandleUndo(ed) ==
    IF Len(ed.audioHistory) > 0
    THEN LET lastState == ed.audioHistory[Len(ed.audioHistory)]
         IN  [ed EXCEPT !.audioData = lastState,
                        !.audioHistory = SubSeq(@, 1, Len(@) - 1),
                        !.srcLoaded = IF lastState # ed.audioData /\ Truthy(lastState)
                                      THEN FALSE ELSE @]
    ELSE ed

\* editorHandleWaveformInteraction whose pointer-up leaves the bounds as dragged
editorHandleWaveformInteraction_NoSwap(ed, relativeX, layout, type) ==
    IF ed.duration = 0 THEN ed
    ELSE LET time == pointerTime(relativeX, layout, ed.duration)
         IN  CASE type = "down" ->
                    [ed EXCEPT !.isDragging = TRUE, !.selection = [start |-> time, end |-> time]]
               [] type = "move" /\ ed.isDragging /\ ed.selection # NoSelection ->
                    [ed EXCEPT !.selection = [start |-> ed.selection.start, end |-> time]]
               [] type = "up" -> [ed EXCEPT !.isDragging = FALSE]
               [] OTHER -> ed

\* AudioEditor.handleWaveformInteraction
editorHandleWaveformInteraction(ed, relativeX, layout, type) ==
    IF ed.duration = 0 THEN ed
    ELSE LET time == pointerTime(relativeX, layout, ed.duration)
         IN  CASE type = "down" ->
                    [ed EXCEPT !.isDragging = TRUE, !.selection = [start |-> time, end |-> time]]
               [] type = "move" /\ ed.isDragging /\ ed.selection # NoSelection ->
                    [ed EXCEPT !.selection = [start |-> ed.selection.start, end |-> time]]
               [] type = "up" ->
                    [ed EXCEPT !.isDragging = FALSE,
                               !.selection = IF @ # NoSelection /\ @.start > @.end
                                             THEN [start |-> @.end, end |-> @.start]
                                             ELSE @]
               [] OTHER -> ed


\* --------------------------------------------------- StepStudio (creator)
StudioUnmounted ==
    [mounted |-> FALSE, currentTime |-> 0, duration |-> 0, isEditorActive |-> FALSE,
     selection |-> NoSelection, isDragging |-> FALSE, audioHistory |-> <<>>,
     srcLoaded |-> FALSE]

StudioMounted == [StudioUnmounted EXCEPT !.mounted = TRUE]

StudioEditTypes == {"cut", "trim"}

\* studioNewData with a cut whose tail starts at startByte
studioNewData_CutKeepsSelection(pcmData, selection, type) ==
    LET startByte == alignedByte(selection.start)
        endByte == alignedByte(selection.end)
    IN  IF type = "cut"
        THEN LET part1 == slice(pcmData, 0, startByte)
                 part2 == slice(pcmData, startByte, Len(pcmData))
             IN  concatenatePcm(<<part1, part2>>)
        ELSE slice(pcmData, startByte, endByte)

\* newData of StepStudio.handleAudioEdit
studioNewData(pcmData, selection, type) ==
    LET startByte == alignedByte(selection.start)
        endByte == alignedByte(selection.end)
    IN  IF type = "cut"
        THEN LET part1 == slice(pcmData, 0, startByte)
                 part2 == slice(pcmData, endByte, Len(pcmData))
             IN  concatenatePcm(<<part1, part2>>)
        ELSE slice(pcmData, startByte, endByte)

\* studioHandleAudioEdit without setSelection(null)
studioHandleAudioEdit_KeepSelection(st, audio, stale, type) ==
    IF st.selection = NoSelection \/ audio = Null
    THEN [studio |-> st, audioData |-> audio, areTimingsStale |-> stale]
    ELSE [studio |-> [st EXCEPT !.audioHistory = Append(@, audio)],
          audioData |-> encode(studioNewData(decode(audio), st.selection, type)),
          areTimingsStale |-> TRUE]

\* StepStudio.handleAudioEdit: [studio, audioData, areTimingsStale] after the handler
studioHandleAudioEdit(st, audio, stale, type) ==
    IF st.selection = NoSelection \/ audio = Null
    THEN [studio |-> st, audioData |-> audio, areTimingsStale |-> stale]
    ELSE [studio |-> [st EXCEPT !.audioHistory = Append(@, audio),
                                !.selection = NoSelection],
          audioData |-> encode(studioNewData(decode(audio), st.selection, type)),
          areTimingsStale |-> TRUE]

\* StepStudio.handleUndo: [studio, audioData] after the handler
studioHandleUndo(st, audio) ==
    IF Len(st.audioHistory) > 0
    THEN [studio |-> [st EXCEPT !.audioHistory = SubSeq(@, 1, Len(@) - 1)],
          audioData |-> st.audioHistory[Len(st.audioHistory)]]
    ELSE [studio |-> st, audioData |-> audio]

\* StepStudio.handleSeek
studioHandleSeek(st, time) == [st EXCEPT !.currentTime = time]

\* studioHandleWaveformInteraction seeking on every pointer event while not editing
studioHandleWaveformInteraction_SeekAlways(st, relativeX, layout, type) ==
    IF st.duration = 0 THEN st
    ELSE LET time == pointerTime(relativeX, layout, st.duration)
         IN  IF ~st.isEditorActive
             THEN studioHandleSeek(st, time)
             ELSE CASE type = "down" ->
                        [st EXCEPT !.isDragging = TRUE,
                                   !.selection = [start |-> time, end |-> time]]
                    [] type = "move" /\ st.isDragging /\ st.selection # NoSelection ->
                        [st EXCEPT !.selection = [start |-> st.selection.start, end |-> time]]
                    [] type = "up" ->
                        [st EXCEPT !.isDragging = FALSE,
                                   !.selection = IF @ # NoSelection /\ @.start > @.end
                                                 THEN [start |-> @.end, end |-> @.start]
                                                 ELSE @]
                    [] OTHER -> st

\* StepStudio.handleWaveformInteraction
studioHandleWaveformInteraction(st, relativeX, layout, type) ==
    IF st.duration = 0 THEN st
    ELSE LET time == pointerTime(relativeX, layout, st.duration)
         IN  IF ~st.isEditorActive
             THEN IF type = "down" THEN studioHandleSeek(st, time) ELSE st
             ELSE CASE type = "down" ->
                        [st EXCEPT !.isDragging = TRUE,
                                   !.selection = [start |-> time, end |-> time]]
                    [] type = "move" /\ st.isDragging /\ st.selection # NoSelection ->
                        [st EXCEPT !.selection = [start |-> st.selection.start, end |-> time]]
                    [] type = "up" ->
                        [st EXCEPT !.isDragging = FALSE,
                                   !.selection = IF @ # NoSelection /\ @.start > @.end
                                                 THEN [start |-> @.end, end |-> @.start]
                                                 ELSE @]
                    [] OTHER -> st

\* renderCreatorContent, case 4: StepStudio is in the tree
StudioRendered(tab, step, scr, audio, timings) ==
    /\ tab = "creator"
    /\ step = 4
    /\ scr # NullList
    /\ Truthy(audio)
    /\ timings # NullList

\* --------------------------------------------------- generatePodcastAudio
\* the external text-to-speech service: the PCM it returns for a dialogue; the
\* long answers last a little over the 0.25 s (12000 bytes) of the cutoff
TtsPcm(dialogue) ==
    CASE dialogue = 1 -> <<5, 0, 250, 255>>
      [] dialogue = 2 -> <<3, 0>>
      [] dialogue = 3 -> <<254, 255>>
      [] dialogue = 4 -> [i \in 1..12002 |-> i % 256]
      [] dialogue = 5 -> [i \in 1..12014 |-> i % 256]
      [] dialogue = 6 -> [i \in 1..12000 |-> i % 256]

Line(d, interrupts) == [speaker |-> "Samantha", dialogue |-> d, isInterruption |-> interrupts]

\* the scripts the script generator may return
Scripts == { <<Line(1, FALSE)>>, <<Line(2, FALSE), Line(3, TRUE)>> }

\* cutoffDuration = 0.25 seconds
cutoffDuration == UnitsPerSecond \div 4

\* number of binary digits of n
RECURSIVE bitLength(_)
bitLength(n) == IF n = 0 THEN 0 ELSE 1 + bitLength(n \div 2)

RECURSIVE pow2(_)
pow2(e) == IF e = 0 THEN 1 ELSE 2 * pow2(e - 1)

\* (a * 2^e) % m
RECURSIVE shiftMod(_, _, _)
shiftMod(a, e, m) == IF e = 0 THEN a % m ELSE shiftMod((2 * a) % m, e - 1, m)

\* Math.floor((originalDuration - cutoffDuration) * 24000 * 2) for a chunk of
\* len > 12000 bytes, as IEEE-754 double arithmetic gives it.  originalDuration
\* is the double nearest to len / 48000 = len / (2^7 * 375): with s the shift
\* that gives the quotient 53 binary digits, len * 2^s = 375 * M + r and the
\* significand is M, or M + 1 when 2r > 375, so 375 times the significand is
\* len * 2^s + c.  Subtracting 0.25 and doubling are exact; the product is the
\* double nearest to (len - 12000) + c / 2^s.  That is below the whole number
\* len - 12000 when c < 0 and |c| / 2^s is more than half the distance to the
\* next double below it (2^(k - 53) with k + 1 the digits of len - 12000, half
\* of that at a power of two; a tie goes to the whole number).
bytesToKeep(len) ==
    LET odd == 375
        exact == len - 12000
        s == 53 - bitLength(len \div odd)
        r == shiftMod(len % odd, s, odd)
        c == IF 2 * r < odd THEN -r ELSE odd - r
        k == bitLength(exact) - 1
        e == IF exact = pow2(k) THEN s + k - 54 ELSE s + k - 53
        below == c < 0 /\ (e < 0 \/ -c > pow2(e))
    IN  IF below THEN exact - 1 ELSE exact

\* rawAudioChunks after the first pass: the decoded answer for a line of a known
\* speaker, an empty chunk for an unknown speaker
firstPass(scr) ==
    [i \in 1..Len(scr) |->
        IF scr[i].speaker = "Samantha"
        THEN decode(encode(TtsPcm(scr[i].dialogue)))
        ELSE <<>>]

RECURSIVE secondPass_TimeNotAccumulated(_, _, _)
\* cumulativeTime set to the duration instead of advanced by it
secondPass_TimeNotAccumulated(scr, rawAudioChunks, i) ==
    IF i = 0 THEN [finalAudioChunks |-> <<>>, timings |-> <<>>, cumulativeTime |-> 0]
    ELSE LET prev == secondPass_TimeNotAccumulated(scr, rawAudioChunks, i - 1)
             raw == rawAudioChunks[i]
             originalDuration == getPcmChunkDuration(raw, sampleRate, 16)
             finalBytes == bytesToKeep(Len(raw)) - (bytesToKeep(Len(raw)) % 2)
             pcmChunk == IF /\ i < Len(scr)
                            /\ scr[i + 1].isInterruption
                            /\ originalDuration > cutoffDuration
                         THEN slice(raw, 0, finalBytes)
                         ELSE raw
             duration == getPcmChunkDuration(pcmChunk, sampleRate, 16)
         IN  IF Len(raw) = 0 THEN prev
             ELSE [finalAudioChunks |-> Append(prev.finalAudioChunks, pcmChunk),
                   timings |-> Append(prev.timings,
                                  [lineIndex |-> i - 1,
                                   startTime |-> prev.cumulativeTime,
                                   duration |-> duration]),
                   cumulativeTime |-> duration]

RECURSIVE secondPass(_, _, _)
\* finalAudioChunks, timings and cumulativeTime after lines 0..i-1
secondPass(scr, rawAudioChunks, i) ==
    IF i = 0 THEN [finalAudioChunks |-> <<>>, timings |-> <<>>, cumulativeTime |-> 0]
    ELSE LET prev == secondPass(scr, rawAudioChunks, i - 1)
             raw == rawAudioChunks[i]
             originalDuration == getPcmChunkDuration(raw, sampleRate, 16)
             finalBytes == bytesToKeep(Len(raw)) - (bytesToKeep(Len(raw)) % 2)
             pcmChunk == IF /\ i < Len(scr)
                            /\ scr[i + 1].isInterruption
                            /\ originalDuration > cutoffDuration
                         THEN slice(raw, 0, finalBytes)
                         ELSE raw
             duration == getPcmChunkDuration(pcmChunk, sampleRate, 16)
         IN  IF Len(raw) = 0 THEN prev
             ELSE [finalAudioChunks |-> Append(prev.finalAudioChunks, pcmChunk),
                   timings |-> Append(prev.timings,
                                  [lineIndex |-> i - 1,
                                   startTime |-> prev.cumulativeTime,
                                   duration |-> duration]),
                   cumulativeTime |-> prev.cumulativeTime + duration]

\* [ok, audioData, timings]; ok is FALSE when the function throws
generatePodcastAudio(scr) ==
    LET pass == secondPass(scr, firstPass(scr), Len(scr))
    IN  IF Len(pass.finalAudioChunks) = 0
        THEN [ok |-> FALSE, audioData |-> Null, timings |-> NullList]
        ELSE [ok |-> TRUE,
              audioData |-> encode(concatenatePcm(pass.finalAudioChunks)),
              timings |-> pass.timings]

\* ------------------------------------------------------------------ state
VARIABLES
    activeTab,        \* App: 'creator' | 'editor'
    currentStep,      \* App: wizard step 1..4
    episodeTitle,     \* App
    script,           \* App: ScriptLine[] | null
    audioData,        \* App: base64 PCM | null
    scriptTimings,    \* App: ScriptTiming[] | null
    areTimingsStale,  \* App
    episodes,         \* App: saved episodes, in memory
    loadedEpisodeId,  \* App: 0 is null
    isLoadingAudio,   \* App
    pendingAudio,     \* handleGenerateAudio calls awaiting generatePodcastAudio, each with
                      \* the script it captured and the episode loaded when it started
    studio,           \* StepStudio component state
    tabAudioData,     \* AudioEditorTab.audioData
    editor,           \* AudioEditor component state
    utilInput,        \* audioUtils: the buffer handed to a utility function
    utilResult,       \* audioUtils: the last utility call and what it returned
    customSamples,    \* App: samanthaCustomSamples, stewardCustomSamples (by speaker)
    isRecording,      \* App: isRecordingSamantha, isRecordingSteward (by speaker)
    mediaRecorder,    \* App: mediaRecorderRef.current, with the speaker it records for
    processing        \* processAudioForCloning calls awaiting their result

appVars == <<currentStep, episodeTitle, script, audioData, scriptTimings, areTimingsStale,
             episodes, loadedEpisodeId, isLoadingAudio>>
creatorVars == <<appVars, pendingAudio, studio>>
editorVars == <<tabAudioData, editor>>
utilVars == <<utilInput, utilResult>>
hostVars == <<customSamples, isRecording, mediaRecorder, processing>>
vars == <<activeTab, creatorVars, editorVars, utilVars, hostVars>>

\* no utility function has been called
NoCall == [fn |-> "none"]

\* the hosts whose panel StepHosts renders (isThirdHostEnabled starts false; the
\* third host's panel runs the same handlers)
Speakers == {"samantha", "steward"}

\* the names of custom samples: an uploaded file's name, a recording's name
SampleNames == {"file", "Recording"}

\* mediaRecorderRef.current before the first recording
NoRecorder == [speaker |-> "none", state |-> "inactive"]

\* the PCM an uploaded file decodes to (audioBlobToPcmBase64)
UploadedPcm == { <<3, 0, 254, 255>> }

AppInit ==
    /\ activeTab = "creator"
    /\ currentStep = 1
    /\ episodeTitle = ""
    /\ script = NullList
    /\ audioData = Null
    /\ scriptTimings = NullList
    /\ areTimingsStale = FALSE
    /\ episodes = <<>>
    /\ loadedEpisodeId = 0
    /\ isLoadingAudio = FALSE
    /\ pendingAudio = <<>>
    /\ studio = StudioUnmounted
    /\ tabAudioData = Null
    /\ editor = EditorUnmounted
    /\ customSamples = [s \in Speakers |-> <<>>]
    /\ isRecording = [s \in Speakers |-> FALSE]
    /\ mediaRecorder = NoRecorder
    /\ processing = [s \in Speakers |-> [n \in SampleNames |-> 0]]

Init ==
    /\ AppInit
    /\ utilInput = <<>>
    /\ utilResult = NoCall

\* StepStudio after a render with the given App state: unmounted, kept, or mounted
\* afresh (the step container is keyed by currentStep); a changed audioData prop
\* re-runs the effect that sets the audio element's src
studioRender(st, tab, step, scr, audio, timings) ==
    IF ~StudioRendered(tab, step, scr, audio, timings) THEN StudioUnmounted
    ELSE IF st.mounted /\ step = currentStep
         THEN [st EXCEPT !.srcLoaded = IF audio # audioData THEN FALSE ELSE @]
         ELSE StudioMounted

Rerender ==
    studio' = studioRender(studio, activeTab', currentStep', script', audioData',
                           scriptTimings')

\* ------------------------------------------------------------ App actions
SetActiveTab(tab) ==
    /\ tab # activeTab
    /\ activeTab' = tab
    /\ UNCHANGED <<utilVars, hostVars, appVars, pendingAudio>>
    /\ Rerender
    /\ tabAudioData' = Null
    /\ editor' = EditorUnmounted

StepHostsNext ==
    /\ activeTab = "creator" /\ currentStep = 1
    /\ currentStep' = 2
    /\ UNCHANGED <<utilVars, hostVars, activeTab, episodeTitle, script, audioData, scriptTimings,
                   areTimingsStale, episodes, loadedEpisodeId, isLoadingAudio,
                   pendingAudio, editorVars>>
    /\ Rerender

StepContentBack ==
    /\ activeTab = "creator" /\ currentStep = 2
    /\ currentStep' = 1
    /\ UNCHANGED <<utilVars, hostVars, activeTab, episodeTitle, script, audioData, scriptTimings,
                   areTimingsStale, episodes, loadedEpisodeId, isLoadingAudio,
                   pendingAudio, editorVars>>
    /\ Rerender

SetEpisodeTitle ==
    /\ activeTab = "creator" /\ currentStep = 2
    /\ episodeTitle' = "Episode"
    /\ UNCHANGED <<utilVars, hostVars, activeTab, currentStep, script, audioData, scriptTimings,
                   areTimingsStale, episodes, loadedEpisodeId, isLoadingAudio,
                   pendingAudio, studio, editorVars>>

\* handleGenerateScript with the generator returning generatedScript
HandleGenerateScript(generatedScript) ==
    /\ activeTab = "creator" /\ currentStep = 2
    /\ episodeTitle # ""
    /\ script' = generatedScript
    /\ audioData' = Null
    /\ scriptTimings' = NullList
    /\ currentStep' = 3
    /\ UNCHANGED <<utilVars, hostVars, activeTab, episodeTitle, areTimingsStale, episodes, loadedEpisodeId,
                   isLoadingAudio, pendingAudio, editorVars>>
    /\ Rerender

\* StepScriptAndAudio "Back": setScript([]); setCurrentStep(2)
StepScriptBack ==
    /\ activeTab = "creator" /\ currentStep = 3
    /\ script # NullList /\ ~isLoadingAudio
    /\ script' = <<>>
    /\ currentStep' = 2
    /\ UNCHANGED <<utilVars, hostVars, activeTab, episodeTitle, audioData, scriptTimings, areTimingsStale,
                   episodes, loadedEpisodeId, isLoadingAudio, pendingAudio, editorVars>>
    /\ Rerender

\* handleGenerateAudio up to its await of generatePodcastAudio
HandleGenerateAudio ==
    /\ activeTab = "creator" /\ currentStep = 3
    /\ script # NullList /\ ~isLoadingAudio
    /\ Len(pendingAudio) < MaxPending
    /\ isLoadingAudio' = TRUE
    /\ audioData' = Null
    /\ scriptTimings' = NullList
    /\ areTimingsStale' = FALSE
    /\ pendingAudio' = Append(pendingAudio, [script |-> script,
                                            loadedEpisodeId |-> loadedEpisodeId])
    /\ UNCHANGED <<utilVars, hostVars, activeTab, currentStep, episodeTitle, script, episodes,
                   loadedEpisodeId, editorVars>>
    /\ Rerender

RemoveAt(seq, i) == SubSeq(seq, 1, i - 1) \o SubSeq(seq, i + 1, Len(seq))

\* handleGenerateAudio after the await: generatePodcastAudio returned
GenerateAudioResolved(i) ==
    /\ i \in 1..Len(pendingAudio)
    /\ LET result == generatePodcastAudio(pendingAudio[i].script)
       IN  IF result.ok
           THEN /\ audioData' = result.audioData
                /\ scriptTimings' = result.timings
                /\ currentStep' = 4
           ELSE /\ currentStep' = 3
                /\ UNCHANGED <<audioData, scriptTimings>>
    /\ isLoadingAudio' = FALSE
    /\ pendingAudio' = RemoveAt(pendingAudio, i)
    /\ UNCHANGED <<utilVars, hostVars, activeTab, episodeTitle, script, areTimingsStale, episodes,
                   loadedEpisodeId, editorVars>>
    /\ Rerender

\* handleGenerateAudio after the await: the service call failed
GenerateAudioFailed(i) ==
    /\ i \in 1..Len(pendingAudio)
    /\ currentStep' = 3
    /\ isLoadingAudio' = FALSE
    /\ pendingAudio' = RemoveAt(pendingAudio, i)
    /\ UNCHANGED <<utilVars, hostVars, activeTab, episodeTitle, script, audioData, scriptTimings,
                   areTimingsStale, episodes, loadedEpisodeId, editorVars>>
    /\ Rerender

\* resetState(true); setCurrentStep(1)
HandleStartOver ==
    /\ activeTab = "creator"
    /\ script' = NullList
    /\ audioData' = Null
    /\ scriptTimings' = NullList
    /\ isLoadingAudio' = FALSE
    /\ areTimingsStale' = FALSE
    /\ loadedEpisodeId' = 0
    /\ episodeTitle' = ""
    /\ currentStep' = 1
    /\ customSamples' = [s \in Speakers |-> <<>>]
    /\ UNCHANGED <<utilVars, isRecording, mediaRecorder, processing, activeTab, episodes,
                   pendingAudio, editorVars>>
    /\ Rerender

EpisodeOf(id) == CHOOSE ep \in {episodes[k] : k \in 1..Len(episodes)} : ep.id = id

\* handleLoadEpisode(id), from the episode selector's onChange
HandleLoadEpisode(id) ==
    /\ activeTab = "creator"
    /\ id # loadedEpisodeId
    /\ \E k \in 1..Len(episodes) : episodes[k].id = id
    /\ LET ep == EpisodeOf(id)
       IN  /\ script' = ep.script
           /\ scriptTimings' = ep.scriptTimings
           /\ audioData' = ep.audioData
           /\ episodeTitle' = ep.title
           /\ loadedEpisodeId' = ep.id
           /\ customSamples' = ep.customSamples
           /\ currentStep' = IF Truthy(ep.audioData) THEN 4
                             ELSE IF ep.script # NullList THEN 3 ELSE 2
    /\ UNCHANGED <<utilVars, isRecording, mediaRecorder, processing, activeTab,
                   areTimingsStale, episodes, isLoadingAudio, pendingAudio, editorVars>>
    /\ Rerender

\* handleSaveOrUpdateEpisode, from the studio's Save / Update button
HandleSaveOrUpdateEpisode ==
    /\ studio.mounted
    /\ episodeTitle # ""
    /\ LET episodeData == [title |-> episodeTitle, script |-> script,
                           scriptTimings |-> scriptTimings, audioData |-> audioData,
                           customSamples |-> customSamples]
       IN  IF loadedEpisodeId # 0
           THEN /\ episodes' = [k \in 1..Len(episodes) |->
                                   IF episodes[k].id = loadedEpisodeId
                                   THEN [id |-> episodes[k].id] @@ episodeData
                                   ELSE episodes[k]]
                /\ UNCHANGED loadedEpisodeId
           ELSE /\ Len(episodes) < MaxEpisodes
                /\ episodes' = Append(episodes, [id |-> Len(episodes) + 1] @@ episodeData)
                /\ loadedEpisodeId' = Len(episodes) + 1
    /\ UNCHANGED <<utilVars, hostVars, activeTab, currentStep, episodeTitle, script, audioData, scriptTimings,
                   areTimingsStale, isLoadingAudio, pendingAudio, studio, editorVars>>


\* ------------------------------------------------------ StepStudio actions
StudioOnly == UNCHANGED <<utilVars, hostVars, activeTab, appVars, pendingAudio, editorVars>>

\* 'loadedmetadata' / 'durationchange' of the audio element after its src was set
StudioLoadedMetadata ==
    /\ studio.mounted /\ ~studio.srcLoaded
    /\ studio' = [studio EXCEPT !.duration = wavDuration(decode(audioData)),
                                !.currentTime = 0,
                                !.srcLoaded = TRUE]
    /\ StudioOnly

StudioToggleEditor ==
    /\ studio.mounted
    /\ studio' = [studio EXCEPT !.isEditorActive = ~@]
    /\ StudioOnly

StudioMouseDown(relativeX, layout) ==
    /\ studio.mounted
    /\ studio' = studioHandleWaveformInteraction(studio, relativeX, layout, "down")
    /\ StudioOnly

StudioMouseMove(relativeX, layout) ==
    /\ studio.mounted
    /\ studio' = studioHandleWaveformInteraction(studio, relativeX, layout, "move")
    /\ StudioOnly

StudioMouseUp(relativeX, layout) ==
    /\ studio.mounted
    /\ studio' = studioHandleWaveformInteraction(studio, relativeX, layout, "up")
    /\ StudioOnly

\* onMouseLeave={() => isDraggingRef.current = false}
StudioMouseLeave ==
    /\ studio.mounted
    /\ studio' = [studio EXCEPT !.isDragging = FALSE]
    /\ StudioOnly

\* the Cut / Trim buttons carry disabled={!selection}
StudioEditDisabled == studio.selection = NoSelection

StudioClickEdit(type) ==
    /\ studio.mounted /\ studio.isEditorActive
    /\ ~StudioEditDisabled
    /\ LET after == studioHandleAudioEdit(studio, audioData, areTimingsStale, type)
       IN  /\ Len(after.studio.audioHistory) <= MaxHistory
           /\ Len(decode(after.audioData)) <= MaxBytes
           /\ audioData' = after.audioData
           /\ areTimingsStale' = after.areTimingsStale
           /\ UNCHANGED <<utilVars, hostVars, activeTab, currentStep, episodeTitle, script, scriptTimings,
                          episodes, loadedEpisodeId, isLoadingAudio, pendingAudio,
                          editorVars>>
           /\ studio' = studioRender(after.studio, activeTab', currentStep', script',
                                     audioData', scriptTimings')

\* the Undo button carries disabled={audioHistory.length === 0}
StudioUndoDisabled == Len(studio.audioHistory) = 0

StudioClickUndo ==
    /\ studio.mounted /\ studio.isEditorActive
    /\ ~StudioUndoDisabled
    /\ LET after == studioHandleUndo(studio, audioData)
       IN  /\ audioData' = after.audioData
           /\ UNCHANGED <<utilVars, hostVars, activeTab, currentStep, episodeTitle, script, scriptTimings,
                          areTimingsStale, episodes, loadedEpisodeId, isLoadingAudio,
                          pendingAudio, editorVars>>
           /\ studio' = studioRender(after.studio, activeTab', currentStep', script',
                                     audioData', scriptTimings')

\* ----------------------------------------------------- AudioEditor actions
EditorOnly == UNCHANGED <<utilVars, hostVars, activeTab, creatorVars, tabAudioData>>

\* AudioEditorTab.handleFileChange with the file decoding to pcm
EditorLoadFile(pcm) ==
    /\ activeTab = "editor" /\ tabAudioData = Null
    /\ tabAudioData' = encode(pcm)
    /\ editor' = EditorMounted(encode(pcm))
    /\ UNCHANGED <<utilVars, hostVars, activeTab, creatorVars>>

\* onStartOver={() => setAudioData(null)}
EditorStartOver ==
    /\ editor.mounted
    /\ tabAudioData' = Null
    /\ editor' = EditorUnmounted
    /\ UNCHANGED <<utilVars, hostVars, activeTab, creatorVars>>

\* 'loadedmetadata' of the audio element; the src is only set for a non-empty audioData
EditorLoadedMetadata ==
    /\ editor.mounted /\ ~editor.srcLoaded /\ Truthy(editor.audioData)
    /\ editor' = [editor EXCEPT !.duration = wavDuration(decode(editor.audioData)),
                                !.srcLoaded = TRUE]
    /\ EditorOnly

\* onMouseDown: setIsTouch(false); handleWaveformInteraction(e.clientX, 'down')
EditorMouseDown(relativeX, layout) ==
    /\ editor.mounted
    /\ editor' = editorHandleWaveformInteraction([editor EXCEPT !.isTouch = FALSE],
                                                 relativeX, layout, "down")
    /\ EditorOnly

\* onMouseMove: !isTouch && isDraggingRef.current && handleWaveformInteraction(.., 'move')
EditorMouseMove(relativeX, layout) ==
    /\ editor.mounted
    /\ editor' = IF ~editor.isTouch /\ editor.isDragging
                 THEN editorHandleWaveformInteraction(editor, relativeX, layout, "move")
                 ELSE editor
    /\ EditorOnly

\* onMouseUp: !isTouch && handleWaveformInteraction(e.clientX, 'up')
EditorMouseUp(relativeX, layout) ==
    /\ editor.mounted
    /\ editor' = IF ~editor.isTouch
                 THEN editorHandleWaveformInteraction(editor, relativeX, layout, "up")
                 ELSE editor
    /\ EditorOnly

\* onMouseLeave: if (!isTouch) isDraggingRef.current = false
EditorMouseLeave ==
    /\ editor.mounted
    /\ editor' = IF ~editor.isTouch THEN [editor EXCEPT !.isDragging = FALSE] ELSE editor
    /\ EditorOnly

\* onTouchStart: setIsTouch(true); handleWaveformInteraction(.., 'down')
EditorTouchStart(relativeX, layout) ==
    /\ editor.mounted
    /\ editor' = editorHandleWaveformInteraction([editor EXCEPT !.isTouch = TRUE],
                                                 relativeX, layout, "down")
    /\ EditorOnly

EditorTouchMove(relativeX, layout) ==
    /\ editor.mounted
    /\ editor' = editorHandleWaveformInteraction(editor, relativeX, layout, "move")
    /\ EditorOnly

EditorTouchEnd(relativeX, layout) ==
    /\ editor.mounted
    /\ editor' = editorHandleWaveformInteraction(editor, relativeX, layout, "up")
    /\ EditorOnly

\* the edit buttons carry disabled={!selection}
EditorEditDisabled == editor.selection = NoSelection

EditorClickEdit(type) ==
    /\ editor.mounted
    /\ ~EditorEditDisabled
    /\ LET after == editorHandleAudioEdit(editor, type)
       IN  /\ Len(after.audioHistory) <= MaxHistory
           /\ Len(decode(after.audioData)) <= MaxBytes
           /\ editor' = after
    /\ EditorOnly

\* the Undo button carries disabled={audioHistory.length === 0}
EditorUndoDisabled == Len(editor.audioHistory) = 0

EditorClickUndo ==
    /\ editor.mounted
    /\ ~EditorUndoDisabled
    /\ editor' = editorHandleUndo(editor)
    /\ EditorOnly

\* ------------------------------------------------------------ specification
Tabs == {"creator", "editor"}

\* the creator wizard up to the studio, the script generator returning one of scripts
WizardNext(scripts) ==
    \/ StepHostsNext
    \/ StepContentBack
    \/ SetEpisodeTitle
    \/ \E s \in scripts : HandleGenerateScript(s)
    \/ StepScriptBack
    \/ HandleGenerateAudio
    \/ \E i \in 1..MaxPending : GenerateAudioResolved(i)
    \/ \E i \in 1..MaxPending : GenerateAudioFailed(i)
    \/ HandleStartOver

\* the studio with the pointer at the positions xs
StudioNext(xs) ==
    \/ StudioLoadedMetadata
    \/ StudioToggleEditor
    \/ \E x \in xs, layout \in Layouts : StudioMouseDown(x, layout)
    \/ \E x \in xs, layout \in Layouts : StudioMouseMove(x, layout)
    \/ \E x \in xs, layout \in Layouts : StudioMouseUp(x, layout)
    \/ StudioMouseLeave
    \/ \E type \in StudioEditTypes : StudioClickEdit(type)
    \/ StudioClickUndo

\* the stand-alone editor tab
EditorNext ==
    \/ \E pcm \in UploadedPcm : EditorLoadFile(pcm)
    \/ EditorStartOver
    \/ EditorLoadedMetadata
    \/ \E x \in PointerXs, layout \in Layouts : EditorMouseDown(x, layout)
    \/ \E x \in PointerXs, layout \in Layouts : EditorMouseMove(x, layout)
    \/ \E x \in PointerXs, layout \in Layouts : EditorMouseUp(x, layout)
    \/ EditorMouseLeave
    \/ \E x \in PointerXs, layout \in Layouts : EditorTouchStart(x, layout)
    \/ \E x \in PointerXs, layout \in Layouts : EditorTouchMove(x, layout)
    \/ \E x \in PointerXs, layout \in Layouts : EditorTouchEnd(x, layout)
    \/ \E type \in EditTypes : EditorClickEdit(type)
    \/ EditorClickUndo

\* The two workspaces share no state (a tab switch unmounts one and mounts the
\* other afresh), so the editing specification explores each from the start:
\* the user picks the workspace first and stays in it.
ChooseWorkspace ==
    /\ currentStep = 1 /\ episodeTitle = "" /\ loadedEpisodeId = 0
    /\ script = NullList /\ pendingAudio = <<>> /\ ~isLoadingAudio
    /\ SetActiveTab("editor")

Next ==
    \/ ChooseWorkspace
    \/ EditorNext
    \/ WizardNext({<<Line(1, FALSE)>>})
    \/ StudioNext(PointerXs)

Spec == Init /\ [][Next]_vars


\* ---------------------------------------------- the creator workflow alone
\* pointer positions used by the workflow specification
WorkflowXs == {1, 2}

EpisodeNext ==
    \/ \E id \in 1..MaxEpisodes : HandleLoadEpisode(id)
    \/ HandleSaveOrUpdateEpisode

NextWorkflow ==
    \/ WizardNext({<<Line(1, FALSE)>>})
    \/ EpisodeNext
    \/ StudioNext(WorkflowXs)

SpecWorkflow == Init /\ [][NextWorkflow]_vars


\* ------------------------------------------------------ waveform analysis
\* The effect that prepares the waveform for drawing (the same code in AudioEditor
\* and in StepStudio). A number is NaN, Infinity, or a fraction num / den, den > 0.
NaN == [kind |-> "NaN"]
Infinity == [kind |-> "Infinity"]
Finite(num, den) == [kind |-> "finite", num |-> num, den |-> den]

RECURSIVE GCD(_, _)
GCD(a, b) == IF b = 0 THEN a ELSE GCD(b, a % b)

\* x * y for x, y >= 0: NaN spreads, 0 * Infinity is NaN; fractions are multiplied
\* with the common factors cancelled
times(x, y) ==
    IF x = NaN \/ y = NaN THEN NaN
    ELSE IF x = Infinity THEN (IF y # Infinity /\ y.num = 0 THEN NaN ELSE Infinity)
    ELSE IF y = Infinity THEN (IF x.num = 0 THEN NaN ELSE Infinity)
    ELSE LET g1 == GCD(x.num, y.den)
             g2 == GCD(y.num, x.den)
         IN  Finite((x.num \div g1) * (y.num \div g2), (x.den \div g2) * (y.den \div g1))

\* sum = sum + Math.abs(channelData[blockSize * i + j]) for j < count, times 32768
RECURSIVE blockSum(_, _, _)
blockSum(pcm, first, count) ==
    IF count = 0 THEN 0
    ELSE LET sample == pcm[first + count]
         IN  (IF sample < 0 THEN -sample ELSE sample) + blockSum(pcm, first, count - 1)

\* filteredData: sum / blockSize for each of the first `samples` blocks; with an
\* empty block that is 0 / 0
filteredData(rawData, samples) ==
    LET pcm == toInt16(rawData)
        blockSize == Len(pcm) \div samples
    IN  [i \in 1..samples |->
            IF blockSize = 0 THEN NaN
            ELSE Finite(blockSum(pcm, blockSize * (i - 1), blockSize), 32768 * blockSize)]

\* Math.max(...filteredData): NaN if an element is NaN; the elements of one
\* buffer have the same denominator
maxOf(filtered) ==
    IF \E i \in 1..Len(filtered) : filtered[i] = NaN THEN NaN
    ELSE CHOOSE m \in {filtered[i] : i \in 1..Len(filtered)} :
            \A i \in 1..Len(filtered) : filtered[i].num <= m.num

\* Math.pow(max, -1) || 1: NaN is falsy and is replaced by 1; the Infinity that
\* Math.pow(0, -1) returns is truthy and is kept
multiplier(filtered) ==
    LET max == maxOf(filtered)
        pow == IF max = NaN THEN NaN
               ELSE IF max.num = 0 THEN Infinity
               ELSE Finite(max.den, max.num)
    IN  IF pow = NaN THEN Finite(1, 1) ELSE pow

\* filteredData.map(n => n * multiplier * 2 - 1)
normalizedData(filtered) ==
    [i \in 1..Len(filtered) |->
        LET product == times(filtered[i], multiplier(filtered))
        IN  IF product = NaN \/ product = Infinity THEN product
            ELSE Finite(2 * product.num - product.den, product.den)]

\* ------------------------------------------------ the audio utilities alone
\* longest buffer handed to a utility, in samples (and in bytes for raw bytes)
MaxSamples == 3

\* 16-bit samples at and around the ends of the range and around zero
SampleValues == {-32768, -3, 0, 1, 3, 32767}

PcmBuffers ==
    { int16Bytes(s) : s \in UNION { [1..n -> SampleValues] : n \in 0..MaxSamples } }

\* raw byte strings: every single byte, and short strings of every length mod 3
ByteStrings ==
    { <<b>> : b \in 0..255 } \cup UNION { [1..n -> {0, 65, 255}] : n \in 0..MaxSamples }

\* most chunks handed to concatenatePcm
MaxChunks == 3

\* lists of chunks: the input buffer, an empty chunk and a fixed chunk, in any order
ChunkLists(pcm) ==
    UNION { [1..n -> {pcm, <<>>, <<7, 8, 9>>}] : n \in 0..MaxChunks }

\* gain factors as fractions: zero, below and above one, negative, and very large
GainFactors ==
    { [num |-> 0, den |-> 1], [num |-> 1, den |-> 2], [num |-> 1, den |-> 1],
      [num |-> 3, den |-> 2], [num |-> 2, den |-> 1], [num |-> -1, den |-> 1],
      [num |-> -3, den |-> 2], [num |-> 60000, den |-> 1], [num |-> -60000, den |-> 1] }

\* background tracks: without samples (no byte, one byte), and of one and two samples
Backgrounds ==
    { <<>>, <<5>>, int16Bytes(<<32767>>), int16Bytes(<<-32768>>), int16Bytes(<<1, -3>>) }

\* background volumes as fractions
BackgroundVolumes ==
    { [num |-> 0, den |-> 1], [num |-> 1, den |-> 2], [num |-> 1, den |-> 1],
      [num |-> 2, den |-> 1] }

\* speed factors as fractions: slower, unchanged, faster
SpeedFactors ==
    { [num |-> 1, den |-> 2], [num |-> 1, den |-> 1], [num |-> 3, den |-> 2],
      [num |-> 2, den |-> 1], [num |-> 4, den |-> 1] }

\* most blocks the waveform is analysed into (Math.floor(400 * zoom) in the source)
MaxBlocks == 3

InitAudioUtils ==
    /\ AppInit
    /\ utilInput \in PcmBuffers \cup ByteStrings
    /\ utilResult = NoCall

\* The utilities are pure: a behaviour calls one of them on its input buffer, and
\* may hand what it returned to the function that undoes it.
UtilOnly == UNCHANGED <<activeTab, creatorVars, editorVars, hostVars, utilInput>>

Encode ==
    /\ utilResult = NoCall
    /\ utilResult' = [fn |-> "encode", result |-> encode(utilInput)]
    /\ UtilOnly

Decode ==
    /\ utilResult.fn = "encode"
    /\ utilResult' = [fn |-> "decode", result |-> decode(utilResult.result)]
    /\ UtilOnly

\* pcmToWav(concatenatedPcm, 24000, 1, 16), as combineCustomAudioSamples calls it
PcmToWav ==
    /\ utilResult = NoCall
    /\ utilResult' = [fn |-> "pcmToWav", result |-> pcmToWav(utilInput, 24000, 1, 16)]
    /\ UtilOnly

\* wavBytes.slice(44) of combineCustomAudioSamples on that file
StripWavHeader ==
    /\ utilResult.fn = "pcmToWav"
    /\ utilResult' = [fn |-> "slice44",
                      result |-> slice(utilResult.result, 44, Len(utilResult.result))]
    /\ UtilOnly

ConcatenatePcm(chunks) ==
    /\ utilResult = NoCall
    /\ utilResult' = [fn |-> "concatenatePcm", chunks |-> chunks,
                      result |-> concatenatePcm(chunks)]
    /\ UtilOnly

ApplyGain(gainFactor) ==
    /\ utilResult = NoCall
    /\ utilInput \in PcmBuffers
    /\ utilResult' = [fn |-> "applyGain", gainFactor |-> gainFactor,
                      result |-> applyGain(utilInput, gainFactor)]
    /\ UtilOnly

MixAudio(backgroundPcm, backgroundVolume) ==
    /\ utilResult = NoCall
    /\ utilInput \in PcmBuffers
    /\ utilResult' = [fn |-> "mixAudio", backgroundPcm |-> backgroundPcm,
                      backgroundVolume |-> backgroundVolume,
                      result |-> mixAudio(utilInput, backgroundPcm, backgroundVolume)]
    /\ UtilOnly

ApplyFade(type) ==
    /\ utilResult = NoCall
    /\ utilInput \in PcmBuffers
    /\ utilResult' = [fn |-> "applyFade", type |-> type,
                      result |-> applyFade(utilInput, type)]
    /\ UtilOnly

ChangeSpeed(speedFactor) ==
    /\ utilResult = NoCall
    /\ utilInput \in PcmBuffers
    /\ utilResult' = [fn |-> "changeSpeed", speedFactor |-> speedFactor,
                      result |-> changeSpeed(utilInput, speedFactor)]
    /\ UtilOnly

\* the waveform effect on a buffer, analysed into `samples` blocks
AnalyzeWaveform(samples) ==
    /\ utilResult = NoCall
    /\ utilInput \in PcmBuffers
    /\ utilResult' = [fn |-> "waveform", samples |-> samples,
                      filteredData |-> filteredData(utilInput, samples),
                      normalizedData |-> normalizedData(filteredData(utilInput, samples))]
    /\ UtilOnly

NextAudioUtils ==
    \/ Encode
    \/ Decode
    \/ PcmToWav
    \/ StripWavHeader
    \/ \E chunks \in ChunkLists(utilInput) : ConcatenatePcm(chunks)
    \/ \E gainFactor \in GainFactors : ApplyGain(gainFactor)
    \/ \E backgroundPcm \in Backgrounds, backgroundVolume \in BackgroundVolumes :
          MixAudio(backgroundPcm, backgroundVolume)
    \/ \E type \in {"in", "out"} : ApplyFade(type)
    \/ \E speedFactor \in SpeedFactors : ChangeSpeed(speedFactor)
    \/ \E samples \in 1..MaxBlocks : AnalyzeWaveform(samples)

SpecAudioUtils == InitAudioUtils /\ [][NextAudioUtils]_vars

\* --------------------------------------------------- audio generation alone
\* most lines of a script handed to generatePodcastAudio
MaxLines == 3

\* script lines with short answers, with and without the interruption flag, and
\* a line whose speaker is none of the configured hosts
GenLines ==
    { Line(1, FALSE), Line(1, TRUE), Line(2, FALSE), Line(3, TRUE),
      [speaker |-> "Narrator", dialogue |-> 2, isInterruption |-> FALSE] }

\* scripts of short answers, and scripts whose first answer lasts 0.25 s or a
\* little longer
GenScripts ==
    UNION { [1..n -> GenLines] : n \in 1..MaxLines }
    \cup { <<Line(4, FALSE), Line(3, TRUE)>>, <<Line(5, FALSE), Line(3, TRUE)>>,
           <<Line(6, FALSE), Line(3, TRUE)>>, <<Line(4, FALSE), Line(2, FALSE)>> }

InitGeneration ==
    /\ AppInit
    /\ utilInput \in GenScripts
    /\ utilResult = NoCall

\* generatePodcastAudio on the script; the chunks of both passes are kept with
\* what it returns
GeneratePodcastAudio ==
    /\ utilResult = NoCall
    /\ LET rawAudioChunks == firstPass(utilInput)
           pass == secondPass(utilInput, rawAudioChunks, Len(utilInput))
       IN  utilResult' = [fn |-> "generatePodcastAudio",
                          rawAudioChunks |-> rawAudioChunks,
                          finalAudioChunks |-> pass.finalAudioChunks,
                          result |-> generatePodcastAudio(utilInput)]
    /\ UtilOnly

NextGeneration ==
    \/ GeneratePodcastAudio

SpecGeneration == InitGeneration /\ [][NextGeneration]_vars

\* ------------------------------------------- custom voice samples (StepHosts)
\* the limit the handlers and the Record / Upload buttons compare the count with
maxCustomSamples == 5

\* processAudioForCloning calls in flight at once, over all hosts
MaxInFlight == 2
\* custom samples stored at once, over all hosts
MaxStoredSamples == 6

RECURSIVE SumOver(_, _)
SumOver(f, keys) ==
    IF keys = {} THEN 0
    ELSE LET k == CHOOSE x \in keys : TRUE IN f[k] + SumOver(f, keys \ {k})

inFlight == SumOver([s \in Speakers |-> SumOver(processing[s], SampleNames)], Speakers)
storedSamples == SumOver([s \in Speakers |-> Len(customSamples[s])], Speakers)

\* StepHosts is on screen
HostsRendered == activeTab = "creator" /\ currentStep = 1

\* the Record and Upload buttons carry disabled={customSamples.length >= 5}
HostButtonsDisabled(speaker) == Len(customSamples[speaker]) >= maxCustomSamples

HostsOnly == UNCHANGED <<utilVars, activeTab, creatorVars, editorVars>>

\* a processAudioForCloning call for the speaker starts
startProcessing(speaker, name) ==
    [processing EXCEPT ![speaker][name] = @ + 1]

\* handleAudioFileChange up to its await, for a file chosen in a dialog that
\* Upload opened earlier: the count is compared with the limit, then the file is
\* handed to processAudioForCloning
HandleAudioFileChange(speaker) ==
    /\ HostsRendered
    /\ inFlight < MaxInFlight
    /\ processing' = IF Len(customSamples[speaker]) >= maxCustomSamples THEN processing
                     ELSE startProcessing(speaker, "file")
    /\ UNCHANGED <<customSamples, isRecording, mediaRecorder>>
    /\ HostsOnly

\* handleToggleRecording: the count is compared with the limit; a running
\* recording is stopped through mediaRecorderRef (its onstop hands the blob to
\* processAudioForCloning for the speaker the recorder was started for, and
\* stop() on a recorder that already stopped either throws or does nothing,
\* depending on the browser); otherwise a recorder is started if the microphone
\* is granted
HandleToggleRecording(speaker, granted, throws) ==
    /\ HostsRendered
    /\ ~HostButtonsDisabled(speaker)
    /\ IF Len(customSamples[speaker]) >= maxCustomSamples
       THEN UNCHANGED <<isRecording, mediaRecorder, processing>>
       ELSE IF isRecording[speaker]
       THEN IF mediaRecorder.state = "recording"
            THEN /\ inFlight < MaxInFlight
                 /\ mediaRecorder' = [mediaRecorder EXCEPT !.state = "inactive"]
                 /\ processing' = startProcessing(mediaRecorder.speaker, "Recording")
                 /\ isRecording' = [isRecording EXCEPT ![speaker] = FALSE]
            ELSE /\ isRecording' = IF throws THEN isRecording
                                   ELSE [isRecording EXCEPT ![speaker] = FALSE]
                 /\ UNCHANGED <<mediaRecorder, processing>>
       ELSE IF granted
            THEN /\ mediaRecorder' = [speaker |-> speaker, state |-> "recording"]
                 /\ isRecording' = [isRecording EXCEPT ![speaker] = TRUE]
                 /\ UNCHANGED processing
            ELSE UNCHANGED <<isRecording, mediaRecorder, processing>>
    /\ UNCHANGED customSamples
    /\ HostsOnly

\* processAudioForCloning returned: set...CustomSamples(prev => [...prev, customAudio])
ProcessAudioResolved(speaker, name) ==
    /\ processing[speaker][name] > 0
    /\ storedSamples < MaxStoredSamples
    /\ processing' = [processing EXCEPT ![speaker][name] = @ - 1]
    /\ customSamples' = [customSamples EXCEPT ![speaker] = Append(@, name)]
    /\ UNCHANGED <<isRecording, mediaRecorder>>
    /\ HostsOnly

\* processAudioForCloning threw: only the error message is set
ProcessAudioFailed(speaker, name) ==
    /\ processing[speaker][name] > 0
    /\ processing' = [processing EXCEPT ![speaker][name] = @ - 1]
    /\ UNCHANGED <<customSamples, isRecording, mediaRecorder>>
    /\ HostsOnly

\* handleRemoveCustomAudio: prev.filter((_, i) => i !== index)
HandleRemoveCustomAudio(speaker, index) ==
    /\ HostsRendered
    /\ index \in 1..Len(customSamples[speaker])
    /\ customSamples' = [customSamples EXCEPT ![speaker] = RemoveAt(@, index)]
    /\ UNCHANGED <<isRecording, mediaRecorder, processing>>
    /\ HostsOnly

NextHosts ==
    \/ \E speaker \in Speakers : HandleAudioFileChange(speaker)
    \/ \E speaker \in Speakers, granted, throws \in BOOLEAN :
          HandleToggleRecording(speaker, granted, throws)
    \/ \E speaker \in Speakers, name \in SampleNames : ProcessAudioResolved(speaker, name)
    \/ \E speaker \in Speakers, name \in SampleNames : ProcessAudioFailed(speaker, name)
    \/ \E speaker \in Speakers, index \in 1..(maxCustomSamples + MaxInFlight) :
          HandleRemoveCustomAudio(speaker, index)
    \/ HandleStartOver

SpecHosts == Init /\ [][NextHosts]_vars

\* ------------------------------------------------------ withApiKeyRotation
\* an error message is a sequence of words
ErrorMessages ==
    { <<"Quota", "exceeded">>, <<"429", "Rate", "Limit">>,
      <<"Resource", "has", "been", "exhausted">>, <<"rate", "exceeded">>,
      <<"API", "key", "not", "valid">> }

toLowerCase(message) ==
    [i \in DOMAIN message |->
        CASE message[i] = "Quota" -> "quota"
          [] message[i] = "Rate" -> "rate"
          [] message[i] = "Limit" -> "limit"
          [] message[i] = "Resource" -> "resource"
          [] message[i] = "API" -> "api"
          [] OTHER -> message[i]]

includes(message, phrase) ==
    \E i \in 0..(Len(message) - Len(phrase)) :
        SubSeq(message, i + 1, i + Len(phrase)) = phrase

\* isQuotaError that takes the word 'rate' alone for a rate limit
isQuotaError_RateAlone(message) ==
    LET errorMessage == toLowerCase(message)
    IN  \/ includes(errorMessage, <<"quota">>)
        \/ includes(errorMessage, <<"rate">>)
        \/ includes(errorMessage, <<"resource", "has", "been", "exhausted">>)

\* errorMessage.includes('quota') || errorMessage.includes('rate limit') ||
\* errorMessage.includes('resource has been exhausted')
isQuotaError(message) ==
    LET errorMessage == toLowerCase(message)
    IN  \/ includes(errorMessage, <<"quota">>)
        \/ includes(errorMessage, <<"rate", "limit">>)
        \/ includes(errorMessage, <<"resource", "has", "been", "exhausted">>)

\* [...new Set(keys)]: the first occurrence of every key, in order
RECURSIVE newSet(_)
newSet(keys) ==
    IF keys = <<>> THEN <<>>
    ELSE LET front == newSet(SubSeq(keys, 1, Len(keys) - 1))
             last == keys[Len(keys)]
         IN  IF \E i \in DOMAIN front : front[i] = last THEN front ELSE Append(front, last)

\* envKeys: the four environment entries that are set (.filter(Boolean))
envKeys(env) == SelectSeq(env, LAMBDA key : key # "")

uniqueApiKeys(storedKeyValues, env) == newSet(storedKeyValues \o envKeys(env))

\* the for loop from key number i on: apiCall[key] is what the call made with the
\* key does, calls are the keys tried so far
RECURSIVE rotate(_, _, _, _)
rotate(keys, i, apiCall, calls) ==
    IF i > Len(keys)
    THEN [ok |-> FALSE, error |-> "All available API keys have reached their usage limits",
          lastError |-> apiCall[keys[Len(keys)]].message, calls |-> calls]
    ELSE LET outcome == apiCall[keys[i]]
             tried == Append(calls, keys[i])
         IN  IF outcome.ok THEN [ok |-> TRUE, result |-> outcome.result, calls |-> tried]
             ELSE IF isQuotaError(outcome.message)
                  THEN rotate(keys, i + 1, apiCall, tried)
                  ELSE [ok |-> FALSE, error |-> "getFriendlyErrorMessage",
                        lastError |-> outcome.message, calls |-> tried]

withApiKeyRotation(storedKeyValues, env, apiCall) ==
    LET keys == uniqueApiKeys(storedKeyValues, env)
    IN  IF Len(keys) = 0
        THEN [ok |-> FALSE, error |-> "No API keys configured", calls |-> <<>>]
        ELSE rotate(keys, 1, apiCall, <<>>)

\* the keys a user may have saved (addKey only refuses a key that is already
\* stored for the same provider)
StoredKeys == { <<>>, <<"k1">>, <<"k2">>, <<"k1", "k2">>, <<"k2", "k1">>, <<"k1", "k1">> }
\* API_KEY, API_KEY_1, API_KEY_2, API_KEY_3; "" is an entry that is not set
EnvKeys ==
    { <<"", "", "", "">>, <<"k3", "", "", "">>, <<"k1", "", "k3", "">>,
      <<"k2", "k3", "k3", "k1">>, <<"", "k3", "", "k2">> }
\* what the service answers to a call made with a key
Outcomes ==
    { [ok |-> TRUE, result |-> "response"] } \cup
    { [ok |-> FALSE, message |-> m] : m \in ErrorMessages }

InitRotation ==
    /\ AppInit
    /\ utilInput \in [storedKeys : StoredKeys, env : EnvKeys,
                      apiCall : [{"k1", "k2", "k3"} -> Outcomes]]
    /\ utilResult = NoCall

WithApiKeyRotation ==
    /\ utilResult = NoCall
    /\ utilResult' = [fn |-> "withApiKeyRotation",
                      result |-> withApiKeyRotation(utilInput.storedKeys, utilInput.env,
                                                    utilInput.apiCall)]
    /\ UtilOnly

NextRotation ==
    \/ WithApiKeyRotation

SpecRotation == InitRotation /\ [][NextRotation]_vars

\* ------------------------------------------------------------------ claims

C2_UndoIsLifo ==
    /\ [](/\ editor.mounted =>
                /\ IF Len(editor.audioHistory) = 0
                   THEN /\ editorHandleUndo(editor) = editor
                        /\ editor.audioData = tabAudioData
                   ELSE /\ editorHandleUndo(editor).audioData
                            = editor.audioHistory[Len(editor.audioHistory)]
                        /\ editorHandleUndo(editor).audioHistory
                            = SubSeq(editor.audioHistory, 1, Len(editor.audioHistory) - 1)
                        /\ editor.audioHistory[1] = tabAudioData
                /\ \A type \in EditTypes :
                    (editor.selection # NoSelection /\ Truthy(editor.audioData)) =>
                        /\ editorHandleUndo(editorHandleAudioEdit(editor, type)).audioData
                            = editor.audioData
                        /\ editorHandleUndo(editorHandleAudioEdit(editor, type)).audioHistory
                            = editor.audioHistory
          /\ Len(studio.audioHistory) = 0 =>
                studioHandleUndo(studio, audioData) = [studio |-> studio, audioData |-> audioData])
    /\ [][/\ StudioClickUndo =>
                /\ audioData' = studio.audioHistory[Len(studio.audioHistory)]
                /\ studio'.mounted
                /\ studio'.audioHistory = SubSeq(studio.audioHistory, 1, Len(studio.audioHistory) - 1)
          /\ \A type \in StudioEditTypes :
                (StudioClickEdit(type) /\ studio'.mounted) =>
                    /\ studioHandleUndo(studio', audioData').audioData = audioData
                    /\ studioHandleUndo(studio', audioData').studio.audioHistory
                        = studio.audioHistory]_vars

\* the studio after an edit and its undo: the history is empty again, the buffer is
\* the generated one byte for byte, and the timings are still marked stale by the edit
C2_Witness ==
    /\ studio.mounted
    /\ studio.audioHistory = <<>>
    /\ areTimingsStale
    /\ audioData = generatePodcastAudio(script).audioData

\* C3: a selection that is null or of zero length is treated as no selection: in every
\* state with such a selection the edit controls are disabled, and a click on an edit
\* control changes neither the buffer nor the history.
C3_ZeroLengthSelectionIsNoSelection ==
    /\ [](/\ (editor.mounted /\ editor.selection.start = editor.selection.end)
                => EditorEditDisabled
          /\ (studio.mounted /\ studio.selection.start = studio.selection.end)
                => StudioEditDisabled)
    /\ [][/\ \A type \in EditTypes :
                (/\ EditorClickEdit(type)
                 /\ editor.selection.start = editor.selection.end)
                    => /\ editor'.audioData = editor.audioData
                       /\ editor'.audioHistory = editor.audioHistory
          /\ \A type \in StudioEditTypes :
                (/\ StudioClickEdit(type)
                 /\ studio.selection.start = studio.selection.end)
                    => /\ audioData' = audioData
                       /\ studio'.audioHistory = studio.audioHistory]_vars

\* C4: pointer-down at time a starts a drag with the selection {a, a}; a pointer-move
\* while dragging sets the end to the pointer time; pointer-up ends the drag and leaves
\* the selection {min(start, end), max(start, end)}.
C4_SelectionStateMachine ==
    [][/\ \A x \in PointerXs, layout \in Layouts :
            /\ ((EditorMouseDown(x, layout) \/ EditorTouchStart(x, layout)) /\ editor.duration # 0)
                  => /\ editor'.isDragging
                     /\ editor'.selection = [start |-> pointerTime(x, layout, editor.duration),
                                             end |-> pointerTime(x, layout, editor.duration)]
            /\ (/\ (EditorMouseMove(x, layout) /\ ~editor.isTouch) \/ EditorTouchMove(x, layout)
                /\ editor.isDragging /\ editor.selection # NoSelection)
                  => /\ editor'.isDragging
                     /\ editor'.selection = [start |-> editor.selection.start,
                                             end |-> pointerTime(x, layout, editor.duration)]
            /\ (/\ (EditorMouseUp(x, layout) /\ ~editor.isTouch) \/ EditorTouchEnd(x, layout)
                /\ editor.isDragging /\ editor.selection # NoSelection)
                  => /\ ~editor'.isDragging
                     /\ editor'.selection =
                            [start |-> Min(editor.selection.start, editor.selection.end),
                             end |-> Max(editor.selection.start, editor.selection.end)]
            /\ (StudioMouseDown(x, layout) /\ studio.isEditorActive /\ studio.duration # 0)
                  => /\ studio'.isDragging
                     /\ studio'.selection = [start |-> pointerTime(x, layout, studio.duration),
                                             end |-> pointerTime(x, layout, studio.duration)]
            /\ (/\ StudioMouseMove(x, layout) /\ studio.isEditorActive
                /\ studio.isDragging /\ studio.selection # NoSelection)
                  => /\ studio'.isDragging
                     /\ studio'.selection = [start |-> studio.selection.start,
                                             end |-> pointerTime(x, layout, studio.duration)]
            /\ (/\ StudioMouseUp(x, layout) /\ studio.isEditorActive
                /\ studio.isDragging /\ studio.selection # NoSelection)
                  => /\ ~studio'.isDragging
                     /\ studio'.selection =
                            [start |-> Min(studio.selection.start, studio.selection.end),
                             end |-> Max(studio.selection.start, studio.selection.end)]]_vars

\* a drag in the stand-alone editor is under way with the pointer left of where it
\* went down: the pointer-up that follows has to swap the bounds
C4_Witness ==
    /\ editor.mounted
    /\ editor.isDragging
    /\ editor.selection # NoSelection
    /\ editor.selection.end < editor.selection.start

\* C5: the current buffer and every snapshot in the history have an even byte length,
\* in both editors.
C5_EvenByteLength ==
    /\ editor.mounted =>
        /\ Len(decode(editor.audioData)) % 2 = 0
        /\ \A k \in 1..Len(editor.audioHistory) : Len(decode(editor.audioHistory[k])) % 2 = 0
    /\ studio.mounted =>
        /\ Len(decode(audioData)) % 2 = 0
        /\ \A k \in 1..Len(studio.audioHistory) : Len(decode(studio.audioHistory[k])) % 2 = 0

\* an edit in the stand-alone editor has shortened the four-byte upload to two bytes
C5_Witness ==
    /\ editor.mounted
    /\ Len(editor.audioHistory) = 1
    /\ Len(decode(editor.audioData)) = 2
    /\ Len(decode(editor.audioHistory[1])) = 4

\* C6: for the current buffer of either editor and every selection [s, e] with
\* 0 <= s <= e <= D that the pointer can draw on it, the byte length of the cut result
\* plus the byte length of the trim result equals the byte length of the buffer.
C6_CutPlusTrimIsWhole ==
    /\ editor.mounted =>
        LET pcmData == decode(editor.audioData)
            D == wavDuration(pcmData)
        IN  \A x1, x2 \in PointerXs, layout \in Layouts :
                LET s == pointerTime(x1, layout, D)
                    e == pointerTime(x2, layout, D)
                IN  s <= e =>
                        Len(editorNewData(pcmData, [start |-> s, end |-> e], "cut"))
                          + Len(editorNewData(pcmData, [start |-> s, end |-> e], "trim"))
                          = Len(pcmData)
    /\ studio.mounted =>
        LET pcmData == decode(audioData)
            D == wavDuration(pcmData)
        IN  \A x1, x2 \in PointerXs, layout \in Layouts :
                LET s == pointerTime(x1, layout, D)
                    e == pointerTime(x2, layout, D)
                IN  s <= e =>
                        Len(studioNewData(pcmData, [start |-> s, end |-> e], "cut"))
                          + Len(studioNewData(pcmData, [start |-> s, end |-> e], "trim"))
                          = Len(pcmData)

\* the studio holds a selection strictly inside the buffer for which both the cut and
\* the trim result are non-empty
C6_Witness ==
    /\ studio.mounted
    /\ studio.selection # NoSelection
    /\ 0 < studio.selection.start
    /\ studio.selection.start < studio.selection.end
    /\ studio.selection.end <= wavDuration(decode(audioData))
    /\ Len(studioNewData(decode(audioData), studio.selection, "cut")) > 0
    /\ Len(studioNewData(decode(audioData), studio.selection, "trim")) > 0

\* the end-to-end scenario of C7: a silent buffer of four seconds, selection [1.0, 2.0]
C7_FourSecondExample ==
    LET pcmData == [i \in 1..(4 * sampleRate * bytesPerSample) |-> 0]
        selection == [start |-> UnitsPerSecond, end |-> 2 * UnitsPerSecond]
    IN  /\ Len(editorNewData(pcmData, selection, "trim")) = 48000
        /\ Len(editorNewData(pcmData, selection, "cut")) = 144000
        /\ Len(studioNewData(pcmData, selection, "trim")) = 48000
        /\ Len(studioNewData(pcmData, selection, "cut")) = 144000

\* C7: for the current buffer of either editor and every selection [s, e] with
\* 0 <= s <= e <= D that the pointer can draw on it, startByte and endByte are
\* floor(t * 24000 * 2) rounded down to an even number, trim returns the bytes
\* [startByte, endByte) and cut returns the bytes [0, startByte) followed by the bytes
\* [endByte, length); four seconds with the selection [1.0, 2.0] give 48000 and 144000 bytes.
C7_TimeToByteSlicing ==
    /\ C7_FourSecondExample
    /\ editor.mounted =>
        LET pcmData == decode(editor.audioData)
            D == wavDuration(pcmData)
        IN  \A x1, x2 \in PointerXs, layout \in Layouts :
                LET s == pointerTime(x1, layout, D)
                    e == pointerTime(x2, layout, D)
                    startByte == 2 * ((s \div (UnitsPerSecond \div (24000 * 2))) \div 2)
                    endByte == 2 * ((e \div (UnitsPerSecond \div (24000 * 2))) \div 2)
                IN  s <= e =>
                        /\ editorNewData(pcmData, [start |-> s, end |-> e], "trim")
                             = SubSeq(pcmData, startByte + 1, endByte)
                        /\ editorNewData(pcmData, [start |-> s, end |-> e], "cut")
                             = SubSeq(pcmData, 1, startByte)
                                 \o SubSeq(pcmData, endByte + 1, Len(pcmData))
    /\ studio.mounted =>
        LET pcmData == decode(audioData)
            D == wavDuration(pcmData)
        IN  \A x1, x2 \in PointerXs, layout \in Layouts :
                LET s == pointerTime(x1, layout, D)
                    e == pointerTime(x2, layout, D)
                    startByte == 2 * ((s \div (UnitsPerSecond \div (24000 * 2))) \div 2)
                    endByte == 2 * ((e \div (UnitsPerSecond \div (24000 * 2))) \div 2)
                IN  s <= e =>
                        /\ studioNewData(pcmData, [start |-> s, end |-> e], "trim")
                             = SubSeq(pcmData, startByte + 1, endByte)
                        /\ studioNewData(pcmData, [start |-> s, end |-> e], "cut")
                             = SubSeq(pcmData, 1, startByte)
                                 \o SubSeq(pcmData, endByte + 1, Len(pcmData))

\* the stand-alone editor holds a selection inside the buffer whose start falls on an
\* odd byte offset before the alignment
C7_Witness ==
    /\ editor.mounted
    /\ editor.selection # NoSelection
    /\ editor.selection.start < editor.selection.end
    /\ editor.selection.end <= wavDuration(decode(editor.audioData))
    /\ (editor.selection.start \div (UnitsPerSecond \div (24000 * 2))) % 2 = 1

\* C8: in the creator workflow, whenever the current audio buffer is not the buffer the
\* current scriptTimings were generated for, areTimingsStale is true.
C8_EditedAudioHasStaleTimings ==
    (/\ audioData # Null
     /\ scriptTimings # NullList
     /\ \A s \in Scripts :
            ~(/\ generatePodcastAudio(s).ok
              /\ generatePodcastAudio(s).timings = scriptTimings
              /\ generatePodcastAudio(s).audioData = audioData))
        => areTimingsStale

\* C9: right after an applied edit the selection is null; a null selection becomes
\* non-null only by a pointer-down on the waveform; undo leaves the selection as it is.
\* For AudioEditor the two handlers are applied to every reachable state, for StepStudio
\* every step of its controls is looked at.
C9_SelectionClearedByEdit ==
    /\ [](editor.mounted =>
            /\ \A type \in EditTypes :
                (/\ editor.selection # NoSelection
                 /\ Truthy(editor.audioData)
                 /\ editorNewData(decode(editor.audioData), editor.selection, type) # RangeError)
                    => editorHandleAudioEdit(editor, type).selection = NoSelection
            /\ editorHandleUndo(editor).selection = editor.selection)
    /\ [][/\ \A type \in StudioEditTypes :
                StudioClickEdit(type) => studio'.selection = NoSelection
          /\ StudioClickUndo => studio'.selection = studio.selection
          /\ (editor.selection = NoSelection /\ editor'.selection # NoSelection)
                => \E x \in PointerXs, layout \in Layouts :
                        EditorMouseDown(x, layout) \/ EditorTouchStart(x, layout)
          /\ (studio.selection = NoSelection /\ studio'.selection # NoSelection)
                => \E x \in PointerXs, layout \in Layouts : StudioMouseDown(x, layout)]_vars

\* the stand-alone editor after an edit, still in the drag that drew the selection:
\* the selection is null while the dragging flag is set
C9_Witness ==
    /\ editor.mounted
    /\ Len(editor.audioHistory) > 0
    /\ editor.audioData # editor.audioHistory[Len(editor.audioHistory)]
    /\ editor.selection = NoSelection
    /\ editor.isDragging

C11_Base64RoundTrip ==
    utilResult.fn = "decode" => utilResult.result = utilInput

\* a decoded string whose base64 text is padded and that holds the byte 255
C11_Witness ==
    /\ utilResult.fn = "decode"
    /\ Len(utilInput) % 3 = 1
    /\ \E i \in 1..Len(utilInput) : utilInput[i] = 255
    /\ utilResult.result = utilInput

\* the unsigned 32-bit little-endian integer at a byte offset of a file
C12_Uint32At(bytes, offset) ==
    bytes[offset + 1] + 256 * bytes[offset + 2] + 65536 * bytes[offset + 3]
    + 16777216 * bytes[offset + 4]

\* C12: pcmToWav(p, 24000, 1, 16) is 44 header bytes, whose field at offset 40 is
\* the length of p and whose field at offset 4 is 36 more, followed by the bytes
\* of p unmodified; dropping the first 44 bytes gives p back.
C12_WavHeaderWrapsPcm ==
    /\ utilResult.fn = "pcmToWav" =>
          /\ Len(utilResult.result) = 44 + Len(utilInput)
          /\ C12_Uint32At(utilResult.result, 40) = Len(utilInput)
          /\ C12_Uint32At(utilResult.result, 4) = 36 + Len(utilInput)
          /\ \A i \in 1..Len(utilInput) : utilResult.result[44 + i] = utilInput[i]
    /\ utilResult.fn = "slice44" => utilResult.result = utilInput

\* a non-empty buffer wrapped into a file and unwrapped again
C12_Witness ==
    /\ utilResult.fn = "slice44"
    /\ Len(utilInput) = 2 * MaxSamples
    /\ utilResult.result = utilInput

\* the chunks of a list joined one after the other
RECURSIVE C13_Joined(_)
C13_Joined(chunks) ==
    IF chunks = <<>> THEN <<>> ELSE Head(chunks) \o C13_Joined(Tail(chunks))

\* the list without its empty chunks
C13_NonEmptyChunks(chunks) ==
    LET nonEmpty(chunk) == chunk # <<>> IN SelectSeq(chunks, nonEmpty)

\* C13: concatenatePcm returns the chunks joined in input order: the length is the
\* sum of the lengths and chunk k starts right after chunks 0..k-1; one chunk gives
\* that chunk, no chunk gives the empty buffer, empty chunks contribute nothing.
C13_ConcatenationInOrder ==
    utilResult.fn = "concatenatePcm" =>
        LET chunks == utilResult.chunks
            result == utilResult.result
        IN  /\ result = C13_Joined(chunks)
            /\ Len(result) = Len(C13_Joined(chunks))
            /\ \A k \in 1..Len(chunks) :
                  SubSeq(result, Len(C13_Joined(SubSeq(chunks, 1, k - 1))) + 1,
                         Len(C13_Joined(SubSeq(chunks, 1, k)))) = chunks[k]
            /\ Len(chunks) = 1 => result = chunks[1]
            /\ chunks = <<>> => result = <<>>
            /\ result = concatenatePcm(C13_NonEmptyChunks(chunks))

\* two different non-empty chunks around an empty one
C13_Witness ==
    /\ utilResult.fn = "concatenatePcm"
    /\ Len(utilResult.chunks) = 3
    /\ utilResult.chunks[1] = utilInput
    /\ Len(utilInput) = 2
    /\ utilResult.chunks[2] = <<>>
    /\ utilResult.chunks[3] = <<7, 8, 9>>
    /\ utilResult.result = utilInput \o <<7, 8, 9>>

\* C14: applyGain returns as many samples as it is given; sample i is the product
\* buf[i] * factor clipped to [-32768, 32767] (a fractional product is stored
\* without its fraction), so for every factor, very large, zero or negative, no
\* output sample lies outside the range and none has wrapped to the other sign.
C14_GainIsClipped ==
    utilResult.fn = "applyGain" =>
        LET buf == toInt16(utilInput)
            out == toInt16(utilResult.result)
            num == utilResult.gainFactor.num
            den == utilResult.gainFactor.den
        IN  /\ Len(out) = Len(buf)
            /\ Len(utilResult.result) = Len(utilInput)
            /\ \A i \in 1..Len(buf) :
                  /\ out[i] >= -32768 /\ out[i] <= 32767
                  /\ buf[i] * num >= 32767 * den => out[i] = 32767
                  /\ buf[i] * num <= -32768 * den => out[i] = -32768
                  /\ (buf[i] * num < 32767 * den /\ buf[i] * num > -32768 * den) =>
                        /\ out[i] * den - buf[i] * num < den
                        /\ buf[i] * num - out[i] * den < den
                        /\ buf[i] * num >= 0 => (out[i] >= 0 /\ out[i] * den <= buf[i] * num)
                        /\ buf[i] * num <= 0 => (out[i] <= 0 /\ out[i] * den >= buf[i] * num)

\* a very large factor drives small samples of both signs to the two ends
C14_Witness ==
    /\ utilResult.fn = "applyGain"
    /\ utilResult.gainFactor = [num |-> 60000, den |-> 1]
    /\ toInt16(utilInput) = <<1, -3, 0>>
    /\ toInt16(utilResult.result) = <<32767, -32768, 0>>

\* the fraction a / b (b > 0) clipped to the 16-bit range, as a stored sample
C15_Clamp16(a, b) ==
    IF a >= 32767 * b THEN 32767
    ELSE IF a <= -32768 * b THEN -32768
    ELSE IF a >= 0 THEN a \div b ELSE -((-a) \div b)

\* C15: mixAudio returns the voice unchanged when the background has no samples;
\* otherwise the output has the voice's sample count and sample i is
\* clamp16(voice[i] + background[i mod L] * vol), the background looping, so no
\* output sample lies outside [-32768, 32767].
C15_MixLoopsAndClips ==
    utilResult.fn = "mixAudio" =>
        LET voice == toInt16(utilInput)
            background == toInt16(utilResult.backgroundPcm)
            L == Len(background)
            vol == utilResult.backgroundVolume
            out == toInt16(utilResult.result)
        IN  IF L = 0 THEN utilResult.result = utilInput
            ELSE /\ Len(out) = Len(voice)
                 /\ Len(utilResult.result) = Len(utilInput)
                 /\ \A i \in 0..(Len(voice) - 1) :
                       /\ out[i + 1] = C15_Clamp16(voice[i + 1] * vol.den
                                                   + background[(i % L) + 1] * vol.num,
                                                   vol.den)
                       /\ out[i + 1] >= -32768 /\ out[i + 1] <= 32767

\* a two-sample background under a three-sample voice: the first sum is clipped
\* and the third takes the background's first sample again
C15_Witness ==
    /\ utilResult.fn = "mixAudio"
    /\ toInt16(utilInput) = <<32767, -3, 1>>
    /\ toInt16(utilResult.backgroundPcm) = <<1, -3>>
    /\ utilResult.backgroundVolume = [num |-> 1, den |-> 1]
    /\ toInt16(utilResult.result) = <<32767, -6, 2>>

\* r is Math.round of the fraction a / b (b > 0): r - 1/2 <= a / b < r + 1/2
C16_IsRounded(r, a, b) ==
    /\ 2 * b * r - b <= 2 * a
    /\ 2 * a < 2 * b * r + b

\* C16: over N >= 2 samples a fade keeps the N samples; 'in' makes the first 0 and
\* leaves the last as it was, 'out' leaves the first as it was and makes the last
\* 0; sample i becomes round(buf[i] * i / (N - 1)) for 'in' and
\* round(buf[i] * (1 - i / (N - 1))) for 'out'.
C16_FadeBoundaryValues ==
    (utilResult.fn = "applyFade" /\ Len(toInt16(utilInput)) >= 2) =>
        LET buf == toInt16(utilInput)
            out == toInt16(utilResult.result)
            N == Len(buf)
        IN  /\ Len(out) = N
            /\ utilResult.type = "in" =>
                  /\ out[1] = 0
                  /\ out[N] = buf[N]
                  /\ \A i \in 0..(N - 1) : C16_IsRounded(out[i + 1], buf[i + 1] * i, N - 1)
            /\ utilResult.type = "out" =>
                  /\ out[1] = buf[1]
                  /\ out[N] = 0
                  /\ \A i \in 0..(N - 1) :
                        C16_IsRounded(out[i + 1], buf[i + 1] * (N - 1 - i), N - 1)

\* a fade-in over three samples: 0, half of -3 rounded to -1, and the last kept
C16_Witness ==
    /\ utilResult.fn = "applyFade"
    /\ utilResult.type = "in"
    /\ toInt16(utilInput) = <<3, -3, 32767>>
    /\ toInt16(utilResult.result) = <<0, -1, 32767>>

\* C17: a fade over exactly one sample leaves the sample unchanged, for 'in' as
\* well as for 'out'.
C17_OneSampleFadeUnchanged ==
    (utilResult.fn = "applyFade" /\ Len(toInt16(utilInput)) = 1) =>
        utilResult.result = utilInput

\* C18: changeSpeed(buf, f) with f > 0 returns floor(N / f) samples; output i is
\* interpolated between the input samples at floor(i * f) and
\* min(floor(i * f) + 1, N - 1), both of them indices of the input; at f = 2 the
\* output has half the samples, at f = 1 it equals the input sample for sample.
C18_SpeedChangeResamples ==
    utilResult.fn = "changeSpeed" =>
        LET buf == toInt16(utilInput)
            out == toInt16(utilResult.result)
            N == Len(buf)
            num == utilResult.speedFactor.num
            den == utilResult.speedFactor.den
        IN  /\ Len(out) * num <= N * den
            /\ N * den < (Len(out) + 1) * num
            /\ Len(utilResult.result) = 2 * Len(out)
            /\ \A i \in 0..(Len(out) - 1) :
                  LET index1 == (i * num) \div den
                      index2 == IF index1 + 1 < N - 1 THEN index1 + 1 ELSE N - 1
                      value == buf[index1 + 1] * den
                               + (buf[index2 + 1] - buf[index1 + 1]) * ((i * num) % den)
                  IN  /\ index1 >= 0 /\ index1 <= N - 1
                      /\ index2 >= 0 /\ index2 <= N - 1
                      /\ value >= 0 => (out[i + 1] * den <= value
                                        /\ value < out[i + 1] * den + den)
                      /\ value <= 0 => (out[i + 1] * den >= value
                                        /\ value > out[i + 1] * den - den)
            /\ (num = 2 /\ den = 1) => Len(out) = N \div 2
            /\ (num = 1 /\ den = 1) => utilResult.result = utilInput

\* one and a half times the speed over three samples: two samples, the second
\* half way between the second and third input samples
C18_Witness ==
    /\ utilResult.fn = "changeSpeed"
    /\ utilResult.speedFactor = [num |-> 3, den |-> 2]
    /\ toInt16(utilInput) = <<3, -3, 32767>>
    /\ toInt16(utilResult.result) = <<3, 16382>>

\* a value of the analysis is a number of [-1, 1]
C19_InUnitRange(value) ==
    /\ value.kind = "finite"
    /\ -value.den <= value.num
    /\ value.num <= value.den

\* C19: for a buffer of at least N samples the analysis into N blocks returns
\* exactly N values, all of them in [-1, 1], and for a buffer that is not silent
\* the largest absolute value is exactly 1.
C19_WaveformNormalized ==
    (utilResult.fn = "waveform" /\ Len(toInt16(utilInput)) >= utilResult.samples) =>
        LET values == utilResult.normalizedData
        IN  /\ Len(values) = utilResult.samples
            /\ \A i \in 1..Len(values) : C19_InUnitRange(values[i])
            /\ (\E k \in 1..Len(toInt16(utilInput)) : toInt16(utilInput)[k] # 0) =>
                  \E i \in 1..Len(values) :
                      /\ values[i].kind = "finite"
                      /\ (values[i].num = values[i].den \/ values[i].num = -values[i].den)

\* C20: when every block mean is 0 the multiplier is 1 and every normalized value
\* is 0 * 1 * 2 - 1 = -1, a finite number.
C20_SilenceIsMinusOne ==
    (/\ utilResult.fn = "waveform"
     /\ \A i \in 1..utilResult.samples :
           utilResult.filteredData[i] # NaN /\ utilResult.filteredData[i].num = 0) =>
        /\ multiplier(utilResult.filteredData) = Finite(1, 1)
        /\ \A i \in 1..utilResult.samples :
              /\ utilResult.normalizedData[i].kind = "finite"
              /\ utilResult.normalizedData[i].num = -utilResult.normalizedData[i].den

\* the sum of the durations of timing records
RECURSIVE C21_TotalDuration(_)
C21_TotalDuration(timings) ==
    IF timings = <<>> THEN 0
    ELSE Head(timings).duration + C21_TotalDuration(Tail(timings))

\* C21: the timing records generatePodcastAudio returns are contiguous and
\* ordered: the first starts at 0, each later one starts where the previous one
\* ends, lineIndex increases strictly, each duration is that of the chunk that
\* was appended for the record (truncated or not), and the durations add up to
\* the duration of the returned buffer.
C21_TimingsContiguous ==
    (utilResult.fn = "generatePodcastAudio" /\ utilResult.result.ok) =>
        LET timings == utilResult.result.timings
            chunks == utilResult.finalAudioChunks
        IN  /\ Len(timings) = Len(chunks)
            /\ timings[1].startTime = 0
            /\ \A k \in 2..Len(timings) :
                  /\ timings[k].startTime = timings[k - 1].startTime + timings[k - 1].duration
                  /\ timings[k].lineIndex > timings[k - 1].lineIndex
            /\ \A k \in 1..Len(timings) :
                  timings[k].duration = Len(chunks[k]) * UnitsPerByte
            /\ C21_TotalDuration(timings)
                  = Len(decode(utilResult.result.audioData)) * UnitsPerByte

\* three records over chunks of different lengths
C21_Witness ==
    /\ utilResult.fn = "generatePodcastAudio"
    /\ utilInput = <<Line(1, FALSE), Line(2, FALSE), Line(3, TRUE)>>
    /\ utilResult.result.ok
    /\ Len(utilResult.result.timings) = 3
    /\ utilResult.result.timings[2].startTime = 4 * UnitsPerByte
    /\ utilResult.result.timings[3].startTime = 6 * UnitsPerByte

\* C22: whenever generatePodcastAudio returns audio for a script, the timings have
\* exactly one record per script line and record k has lineIndex k, so that
\* scriptTimings[k] is the timing of script line k.
C22_OneTimingPerLine ==
    (utilResult.fn = "generatePodcastAudio" /\ utilResult.result.ok) =>
        /\ Len(utilResult.result.timings) = Len(utilInput)
        /\ \A k \in 1..Len(utilResult.result.timings) :
              utilResult.result.timings[k].lineIndex = k - 1

\* C23: when the next script line is flagged isInterruption, the chunk of the
\* current line (one longer than 250 ms) loses its last 250 ms, which is 12000
\* bytes, and the length kept is even; a chunk whose next line is not flagged is
\* appended unchanged.  Stated for scripts all of whose lines produce audio.
C23_InterruptionTruncates ==
    (/\ utilResult.fn = "generatePodcastAudio"
     /\ Len(utilResult.finalAudioChunks) = Len(utilInput)) =>
        \A i \in 1..Len(utilInput) :
            LET raw == utilResult.rawAudioChunks[i]
                final == utilResult.finalAudioChunks[i]
                nextInterrupts == i < Len(utilInput) /\ utilInput[i + 1].isInterruption
            IN  /\ (nextInterrupts /\ Len(raw) > 12000 /\ Len(raw) % 2 = 0) =>
                      /\ Len(final) = Len(raw) - 12000
                      /\ Len(final) % 2 = 0
                      /\ final = SubSeq(raw, 1, Len(raw) - 12000)
                /\ ~nextInterrupts => final = raw

\* t is ((relativeX + scrollLeft) / scrollWidth) * D clamped to [0, D], in whole
\* time units
C24_IsClampedTime(t, relativeX, layout, D) ==
    LET absoluteX == relativeX + layout.scrollLeft
    IN  /\ 0 <= t /\ t <= D
        /\ absoluteX <= 0 => t = 0
        /\ absoluteX >= layout.scrollWidth => t = D
        /\ (0 < absoluteX /\ absoluteX < layout.scrollWidth) =>
              /\ t * layout.scrollWidth <= absoluteX * D
              /\ absoluteX * D < (t + 1) * layout.scrollWidth

\* what a waveform handler may do to the selection sel of a component whose
\* duration is D, on a pointer event that gives the component `after`: each
\* bound it computes is the clamped time, the other bounds are carried over
C24_SelectionInRange(sel, D, after, relativeX, layout, type) ==
    /\ type = "down" =>
          /\ after.selection.start = after.selection.end
          /\ C24_IsClampedTime(after.selection.start, relativeX, layout, D)
    /\ (type = "move" /\ after.selection # sel) =>
          C24_IsClampedTime(after.selection.end, relativeX, layout, D)
    /\ type = "move" => after.selection.start = sel.start
    /\ type = "up" => {after.selection.start, after.selection.end} = {sel.start, sel.end}

C25_NoEditOnInvertedSelection ==
    /\ (editor.mounted /\ ~editor.isDragging /\ ~EditorEditDisabled
            /\ Truthy(editor.audioData)) =>
          /\ editor.selection.start <= editor.selection.end
          /\ Len(editorNewData(decode(editor.audioData), editor.selection, "cut"))
                <= Len(decode(editor.audioData))
    /\ (studio.mounted /\ studio.isEditorActive /\ ~studio.isDragging
            /\ ~StudioEditDisabled /\ audioData # Null) =>
          /\ studio.selection.start <= studio.selection.end
          /\ Len(studioNewData(decode(audioData), studio.selection, "cut"))
                <= Len(decode(audioData))

\* C26: the studio's undo history only holds earlier states of the audio that is
\* loaded now. Whenever a step of handleLoadEpisode or the completion of a new
\* generation makes a different audio current, the studio's audioHistory is
\* empty after the step.
C26_HistoryEmptyOnNewAudio ==
    [][((\E id \in 1..MaxEpisodes : HandleLoadEpisode(id))
            \/ (\E i \in 1..MaxPending : GenerateAudioResolved(i)))
        => (audioData' # audioData => studio'.audioHistory = <<>>)]_vars

\* C27: an audio generation commits only to the session that started it. For
\* every interleaving of an in-flight handleGenerateAudio with handleLoadEpisode
\* and handleStartOver, when the call resolves with audio the current script is
\* the script the audio was generated from and loadedEpisodeId is the episode
\* that was loaded when the call started.
C27_GenerationCommitsToItsSession ==
    [][\A i \in 1..MaxPending :
          (GenerateAudioResolved(i) /\ generatePodcastAudio(pendingAudio[i].script).ok)
          => /\ script' = pendingAudio[i].script
             /\ loadedEpisodeId' = pendingAudio[i].loadedEpisodeId]_vars

\* C28: in every reachable state each host has at most 5 custom audio samples,
\* for any interleaving of file uploads and microphone recordings (each compares
\* the count with the limit when it starts and appends when its processing is
\* done).
C28_AtMostFiveSamples ==
    \A speaker \in Speakers : Len(customSamples[speaker]) <= maxCustomSamples

\* the messages of quota, rate-limit and resource-exhausted errors
C29_QuotaMessages ==
    { <<"Quota", "exceeded">>, <<"429", "Rate", "Limit">>,
      <<"Resource", "has", "been", "exhausted">> }

\* the position of the first occurrence of key in keys (0 when it is not there)
C29_FirstIndex(keys, key) ==
    IF \E i \in DOMAIN keys : keys[i] = key
    THEN CHOOSE i \in DOMAIN keys : keys[i] = key /\ \A j \in 1..(i - 1) : keys[j] # key
    ELSE 0

\* C29: withApiKeyRotation tries the de-duplicated keys in order (user keys
\* before environment keys), each at most once; it returns the first success,
\* moves on to the next key only after a quota / rate-limit / resource-exhausted
\* error, fails at once on any other error, fails with 'all keys have reached
\* their usage limits' only if every key failed with a quota error, and fails
\* without a call when no key is configured.
C29_KeyRotation ==
    utilResult.fn = "withApiKeyRotation" =>
        LET configured == utilInput.storedKeys \o SelectSeq(utilInput.env, LAMBDA k : k # "")
            keySet == {configured[i] : i \in DOMAIN configured}
            apiCall == utilInput.apiCall
            res == utilResult.result
            calls == res.calls
            n == Len(calls)
            quotaFailure(key) == ~apiCall[key].ok /\ apiCall[key].message \in C29_QuotaMessages
        IN  /\ \A i \in 1..n : calls[i] \in keySet
            /\ \A i, j \in 1..n : i # j => calls[i] # calls[j]
            /\ \A i \in 1..n : \A key \in keySet :
                  C29_FirstIndex(configured, key) < C29_FirstIndex(configured, calls[i])
                  => \E j \in 1..(i - 1) : calls[j] = key
            /\ \A i \in 1..(n - 1) : quotaFailure(calls[i])
            /\ res.ok => /\ n > 0 /\ apiCall[calls[n]].ok
                         /\ res.result = apiCall[calls[n]].result
            /\ ~res.ok =>
                  /\ keySet = {} <=> res.error = "No API keys configured"
                  /\ keySet = {} => n = 0
                  /\ keySet # {} => n > 0 /\ ~apiCall[calls[n]].ok
                  /\ (keySet # {} /\ ~quotaFailure(calls[n]))
                        => res.error = "getFriendlyErrorMessage"
                  /\ res.error = "All available API keys have reached their usage limits"
                        <=> (keySet # {} /\ \A key \in keySet : quotaFailure(key)
                             /\ {calls[i] : i \in 1..n} = keySet)

\* a user key hit its quota and the call then succeeded with an environment key
C29_Witness ==
    /\ utilResult.fn = "withApiKeyRotation"
    /\ utilResult.result.ok
    /\ Len(utilResult.result.calls) >= 2
    /\ utilInput.storedKeys # <<>>
    /\ utilResult.result.calls[1] = utilInput.storedKeys[1]
    /\ \A i \in DOMAIN utilInput.storedKeys :
          utilInput.storedKeys[i] # utilResult.result.calls[Len(utilResult.result.calls)]

\* C30: a 'silence' edit leaves the total length unchanged. For every selection
\* with 0 <= start <= end <= D, generateSilence(end - start, 24000, 16) has
\* exactly as many bytes as the region [startByte, endByte) it replaces, and the
\* bytes outside the region keep their value and position.
C30_SilenceKeepsLength ==
    (/\ editor.mounted /\ Truthy(editor.audioData)
     /\ editor.selection # NoSelection
     /\ 0 <= editor.selection.start
     /\ editor.selection.start <= editor.selection.end
     /\ editor.selection.end <= wavDuration(decode(editor.audioData))) =>
        LET pcmData == decode(editor.audioData)
            startByte == alignedByte(editor.selection.start)
            endByte == alignedByte(editor.selection.end)
            silence == generateSilence(editor.selection.end - editor.selection.start,
                                       sampleRate, 16)
            newData == editorNewData(pcmData, editor.selection, "silence")
        IN  /\ Len(silence) = endByte - startByte
            /\ Len(newData) = Len(pcmData)
            /\ \A i \in 1..Len(pcmData) :
                  (i <= startByte \/ i > endByte) => newData[i] = pcmData[i]

====
